---- MODULE Spec2Model ----
(***************************************************************************)
(* Verification model of the chess match of covey.town:                    *)
(*   townService/src/town/games/ChessGame.ts  (the match state machine)    *)
(*   townService/src/town/games/ChessGameArea.ts  (the area that routes    *)
(*   commands to the match, keeps the history and runs the bot)            *)
(*   townService/src/town/games/StockfishEngine.ts  (the bridge to the     *)
(*   engine subprocess the bot asks for its moves)                         *)
(*   frontend/src/classes/interactable/ChessAreaController.ts  (the        *)
(*   client: whose turn, makeMove, the board replayed from the move log)   *)
(* The rules library the match delegates to (chess.ts: turn, get, move,    *)
(* fen, inCheckmate, inStalemate, insufficientMaterial,                    *)
(* inThreefoldRepetition, inDraw) is modelled by the operators of the      *)
(* section "rules engine".                                                 *)
(***************************************************************************)
EXTENDS Integers, Sequences, FiniteSets, TLC

\* ------------------------------------------------------------------------
\* values
\* ------------------------------------------------------------------------
Undefined == "undefined"
NoError == "ok"

PLAYER_ALREADY_IN_GAME_MESSAGE == "PLAYER_ALREADY_IN_GAME"
GAME_FULL_MESSAGE == "GAME_FULL"
GAME_NOT_STARTABLE_MESSAGE == "GAME_NOT_STARTABLE"
GAME_NOT_IN_PROGRESS_MESSAGE == "GAME_NOT_IN_PROGRESS"
PLAYER_NOT_IN_GAME_MESSAGE == "PLAYER_NOT_IN_GAME"
MOVE_NOT_YOUR_TURN_MESSAGE == "MOVE_NOT_YOUR_TURN"
BOARD_POSITION_NOT_VALID_MESSAGE == "BOARD_POSITION_NOT_VALID"

\* ------------------------------------------------------------------------
\* rules engine (chess.ts as used by ChessGame)
\* ------------------------------------------------------------------------
\* The board is a sequence of 64 FEN characters, a8 first, h1 last
\* ("." is an empty square), the order of a FEN string.
Empty == "."

InitialBoard ==
  << "r", "n", "b", "q", "k", "b", "n", "r",
     "p", "p", "p", "p", "p", "p", "p", "p",
     ".", ".", ".", ".", ".", ".", ".", ".",
     ".", ".", ".", ".", ".", ".", ".", ".",
     ".", ".", ".", ".", ".", ".", ".", ".",
     ".", ".", ".", ".", ".", ".", ".", ".",
     "P", "P", "P", "P", "P", "P", "P", "P",
     "R", "N", "B", "Q", "K", "B", "N", "R" >>

Idx(row, col) == row * 8 + col + 1
RowOf(i) == (i - 1) \div 8
ColOf(i) == (i - 1) % 8
InBoard(row, col) == row >= 0 /\ row < 8 /\ col >= 0 /\ col < 8

Abs(n) == IF n < 0 THEN 0 - n ELSE n
Sgn(n) == IF n < 0 THEN 0 - 1 ELSE IF n > 0 THEN 1 ELSE 0

ColorOf(ch) ==
  IF ch = Empty THEN "-"
  ELSE IF ch \in {"P", "N", "B", "R", "Q", "K"} THEN "w" ELSE "b"

TypeOf(ch) ==
  CASE ch \in {"P", "p"} -> "p"
    [] ch \in {"N", "n"} -> "n"
    [] ch \in {"B", "b"} -> "b"
    [] ch \in {"R", "r"} -> "r"
    [] ch \in {"Q", "q"} -> "q"
    [] ch \in {"K", "k"} -> "k"
    [] OTHER -> "-"

FENChar(type, color) ==
  IF color = "w"
  THEN (CASE type = "p" -> "P" [] type = "n" -> "N" [] type = "b" -> "B"
          [] type = "r" -> "R" [] type = "q" -> "Q" [] OTHER -> "K")
  ELSE (CASE type = "p" -> "p" [] type = "n" -> "n" [] type = "b" -> "b"
          [] type = "r" -> "r" [] type = "q" -> "q" [] OTHER -> "k")

Opp(color) == IF color = "w" THEN "b" ELSE "w"

\* movement directions <<x, y>> of the pieces
KnightDirs ==
  { <<1, 2>>, <<1, -2>>, <<-1, 2>>, <<-1, -2>>,
    <<2, 1>>, <<2, -1>>, <<-2, 1>>, <<-2, -1>> }
KingDirs ==
  { <<0, 1>>, <<0, -1>>, <<1, 0>>, <<1, -1>>,
    <<1, 1>>, <<-1, 0>>, <<-1, 1>>, <<-1, -1>> }
BishopDirs == { <<1, 1>>, <<1, -1>>, <<-1, 1>>, <<-1, -1>> }
RookDirs == { <<1, 0>>, <<-1, 0>>, <<0, 1>>, <<0, -1>> }

\* index of the first occupied square from (row, col) in direction
\* (dr, dc), 0 when the ray leaves the board first
RECURSIVE FirstPiece(_, _, _, _, _)
FirstPiece(board, row, col, dr, dc) ==
  IF ~InBoard(row + dr, col + dc) THEN 0
  ELSE IF board[Idx(row + dr, col + dc)] # Empty THEN Idx(row + dr, col + dc)
  ELSE FirstPiece(board, row + dr, col + dc, dr, dc)

\* is square i attacked by a piece of color by
Attacked(board, i, by) ==
  LET row == RowOf(i)
      col == ColOf(i)
      prow == IF by = "w" THEN row + 1 ELSE row - 1
  IN  \/ \E d \in KnightDirs :
           /\ InBoard(row + d[2], col + d[1])
           /\ board[Idx(row + d[2], col + d[1])] = FENChar("n", by)
      \/ \E d \in KingDirs :
           /\ InBoard(row + d[2], col + d[1])
           /\ board[Idx(row + d[2], col + d[1])] = FENChar("k", by)
      \/ \E dc \in {-1, 1} :
           /\ InBoard(prow, col + dc)
           /\ board[Idx(prow, col + dc)] = FENChar("p", by)
      \/ \E d \in RookDirs :
           LET j == FirstPiece(board, row, col, d[2], d[1])
           IN  j # 0 /\ board[j] \in {FENChar("r", by), FENChar("q", by)}
      \/ \E d \in BishopDirs :
           LET j == FirstPiece(board, row, col, d[2], d[1])
           IN  j # 0 /\ board[j] \in {FENChar("b", by), FENChar("q", by)}

KingIdx(board, color) == CHOOSE i \in 1..64 : board[i] = FENChar("k", color)

\* a sliding piece reaches square to from square from: straight or
\* diagonal line and every square strictly between is empty
Slides(board, from, to) ==
  LET dr == RowOf(to) - RowOf(from)
      dc == ColOf(to) - ColOf(from)
  IN  /\ (dr = 0 \/ dc = 0 \/ Abs(dr) = Abs(dc))
      /\ LET j == FirstPiece(board, RowOf(from), ColOf(from), Sgn(dr), Sgn(dc))
             n == IF Abs(dr) > Abs(dc) THEN Abs(dr) ELSE Abs(dc)
             m == IF j = 0 THEN 8
                  ELSE IF Abs(RowOf(j) - RowOf(from)) > Abs(ColOf(j) - ColOf(from))
                       THEN Abs(RowOf(j) - RowOf(from))
                       ELSE Abs(ColOf(j) - ColOf(from))
         IN  m >= n

PawnForward(color) == IF color = "w" THEN 0 - 1 ELSE 1
PawnStartRow(color) == IF color = "w" THEN 6 ELSE 1
PawnLastRow(color) == IF color = "w" THEN 0 ELSE 7
KingHome(color) == IF color = "w" THEN Idx(7, 4) ELSE Idx(0, 4)

IsEnPassant(e, from, to) ==
  /\ TypeOf(e.board[from]) = "p"
  /\ to = e.ep
  /\ ColOf(to) # ColOf(from)

IsCastle(e, from, to) ==
  /\ TypeOf(e.board[from]) = "k"
  /\ Abs(ColOf(to) - ColOf(from)) = 2

IsPromotion(e, from, to) ==
  /\ TypeOf(e.board[from]) = "p"
  /\ RowOf(to) = PawnLastRow(ColorOf(e.board[from]))

\* the piece on from moves to to by its movement pattern (own king's
\* safety not yet considered)
PseudoLegal(e, from, to) ==
  LET b == e.board
      us == e.turn
      dr == RowOf(to) - RowOf(from)
      dc == ColOf(to) - ColOf(from)
      t == TypeOf(b[from])
  IN  /\ from # to
      /\ ColorOf(b[from]) = us
      /\ ColorOf(b[to]) # us
      /\ CASE t = "p" ->
                \/ /\ dc = 0 /\ dr = PawnForward(us) /\ b[to] = Empty
                \/ /\ dc = 0 /\ dr = 2 * PawnForward(us)
                   /\ RowOf(from) = PawnStartRow(us)
                   /\ b[Idx(RowOf(from) + PawnForward(us), ColOf(from))] = Empty
                   /\ b[to] = Empty
                \/ /\ Abs(dc) = 1 /\ dr = PawnForward(us)
                   /\ (ColorOf(b[to]) = Opp(us) \/ to = e.ep)
           [] t = "n" -> <<dc, dr>> \in KnightDirs
           [] t = "b" -> Abs(dr) = Abs(dc) /\ Slides(b, from, to)
           [] t = "r" -> (dr = 0 \/ dc = 0) /\ Slides(b, from, to)
           [] t = "q" -> Slides(b, from, to)
           [] t = "k" ->
                \/ <<dc, dr>> \in KingDirs
                \/ /\ dr = 0 /\ dc = 2 /\ from = KingHome(us)
                   /\ <<us, "k">> \in e.castling
                   /\ b[from + 1] = Empty /\ b[from + 2] = Empty
                   /\ ~Attacked(b, from, Opp(us))
                   /\ ~Attacked(b, from + 1, Opp(us))
                \/ /\ dr = 0 /\ dc = 0 - 2 /\ from = KingHome(us)
                   /\ <<us, "q">> \in e.castling
                   /\ b[from - 1] = Empty /\ b[from - 2] = Empty
                   /\ b[from - 3] = Empty
                   /\ ~Attacked(b, from, Opp(us))
                   /\ ~Attacked(b, from - 1, Opp(us))
           [] OTHER -> FALSE

\* the board after the piece on from went to to; promo is the type the
\* pawn becomes on its last rank
BoardAfter(e, from, to, promo) ==
  LET b == e.board
      us == e.turn
      placed == IF IsPromotion(e, from, to) THEN FENChar(promo, us) ELSE b[from]
      b1 == [b EXCEPT ![to] = placed, ![from] = Empty]
      b2 == IF IsEnPassant(e, from, to)
            THEN [b1 EXCEPT ![Idx(RowOf(from), ColOf(to))] = Empty]
            ELSE b1
  IN  IF IsCastle(e, from, to)
      THEN IF ColOf(to) > ColOf(from)
           THEN [b2 EXCEPT ![to - 1] = b[to + 1], ![to + 1] = Empty]
           ELSE [b2 EXCEPT ![to + 1] = b[to - 2], ![to - 2] = Empty]
      ELSE b2

Legal(e, from, to) ==
  /\ PseudoLegal(e, from, to)
  /\ LET nb == BoardAfter(e, from, to, "q")
     IN  ~Attacked(nb, KingIdx(nb, e.turn), Opp(e.turn))

RookHomes ==
  { <<Idx(7, 7), <<"w", "k">> >>, <<Idx(7, 0), <<"w", "q">> >>,
    <<Idx(0, 7), <<"b", "k">> >>, <<Idx(0, 0), <<"b", "q">> >> }

CastlingAfter(e, from, to) ==
  LET lostKing == IF TypeOf(e.board[from]) = "k"
                  THEN { <<e.turn, "k">>, <<e.turn, "q">> } ELSE {}
      lostRook == { h[2] : h \in { x \in RookHomes : x[1] = from \/ x[1] = to } }
  IN  (e.castling \ lostKing) \ lostRook

PositionKey(board, turn, castling, ep) == <<board, turn, castling, ep>>

\* the engine after the legal move from -> to
EngineMakeMove(e, from, to, promo) ==
  LET us == e.turn
      nb == BoardAfter(e, from, to, promo)
      pawn == TypeOf(e.board[from]) = "p"
      capture == e.board[to] # Empty \/ IsEnPassant(e, from, to)
      nep == IF pawn /\ Abs(RowOf(to) - RowOf(from)) = 2
             THEN Idx(RowOf(from) + PawnForward(us), ColOf(from)) ELSE 0
      nc == CastlingAfter(e, from, to)
  IN  [ board |-> nb,
        turn |-> Opp(us),
        castling |-> nc,
        ep |-> nep,
        half |-> IF pawn \/ capture THEN 0 ELSE e.half + 1,
        full |-> IF us = "b" THEN e.full + 1 ELSE e.full,
        positions |-> Append(e.positions, PositionKey(nb, Opp(us), nc, nep)) ]

\* files of the board, a..h
Files == << "a", "b", "c", "d", "e", "f", "g", "h" >>
FileIndex(f) == CHOOSE k \in 1..8 : Files[k] = f

\* board index of the algebraic square <<file, rank>>
SquareIdx(sq) == Idx(8 - sq[2], FileIndex(sq[1]) - 1)

AllCastling == { <<"w", "k">>, <<"w", "q">>, <<"b", "k">>, <<"b", "q">> }

\* new Chess()
NewChess ==
  [ board |-> InitialBoard, turn |-> "w", castling |-> AllCastling, ep |-> 0,
    half |-> 0, full |-> 1,
    positions |-> << PositionKey(InitialBoard, "w", AllCastling, 0) >> ]

\* engine.fen(): the six FEN fields (no move history)
Fen(e) ==
  [ board |-> e.board, turn |-> e.turn, castling |-> e.castling, ep |-> e.ep,
    half |-> e.half, full |-> e.full ]

\* new Chess(fen)
ChessFromFen(f) ==
  [ board |-> f.board, turn |-> f.turn, castling |-> f.castling, ep |-> f.ep,
    half |-> f.half, full |-> f.full,
    positions |-> << PositionKey(f.board, f.turn, f.castling, f.ep) >> ]

\* engine.turn()
Turn(e) == e.turn

\* engine.get(square): the FEN character on the square, Empty for null
Get(e, sq) == e.board[SquareIdx(sq)]

\* engine.move({from, to, promotion}): [ok, engine]; ok is FALSE (null
\* result) and the engine unchanged when no legal move matches
EngineMove(e, from, to, promotion) ==
  LET f == SquareIdx(from)
      t == SquareIdx(to)
  IN  IF ~Legal(e, f, t) THEN [ok |-> FALSE, engine |-> e]
      ELSE IF IsPromotion(e, f, t)
           THEN IF promotion \in {"q", "r", "b", "n"}
                THEN [ok |-> TRUE, engine |-> EngineMakeMove(e, f, t, promotion)]
                ELSE [ok |-> FALSE, engine |-> e]
           ELSE [ok |-> TRUE, engine |-> EngineMakeMove(e, f, t, "q")]

InCheck(e) == Attacked(e.board, KingIdx(e.board, e.turn), Opp(e.turn))

HasLegalMove(e) ==
  \E from \in 1..64 :
     /\ ColorOf(e.board[from]) = e.turn
     /\ \E to \in 1..64 : Legal(e, from, to)

InCheckmate(e) == InCheck(e) /\ ~HasLegalMove(e)
InStalemate(e) == ~InCheck(e) /\ ~HasLegalMove(e)

SquareIsDark(i) == (RowOf(i) + ColOf(i)) % 2 = 1

InsufficientMaterial(e) ==
  LET pieces == { i \in 1..64 : e.board[i] # Empty }
      bishops == { i \in pieces : TypeOf(e.board[i]) = "b" }
      knights == { i \in pieces : TypeOf(e.board[i]) = "n" }
      n == Cardinality(pieces)
  IN  \/ n = 2
      \/ n = 3 /\ (Cardinality(bishops) = 1 \/ Cardinality(knights) = 1)
      \/ /\ n = Cardinality(bishops) + 2
         /\ \/ \A i \in bishops : SquareIsDark(i)
            \/ \A i \in bishops : ~SquareIsDark(i)

InThreefoldRepetition(e) ==
  \E k \in 1..Len(e.positions) :
     Cardinality({ j \in 1..Len(e.positions) : e.positions[j] = e.positions[k] }) >= 3

InDraw(e) ==
  \/ e.half >= 100
  \/ InStalemate(e)
  \/ InsufficientMaterial(e)
  \/ InThreefoldRepetition(e)

\* ------------------------------------------------------------------------
\* ChessGame (townService/src/town/games/ChessGame.ts)
\* ------------------------------------------------------------------------
WAITING_FOR_PLAYERS == "WAITING_FOR_PLAYERS"
WAITING_TO_START == "WAITING_TO_START"
IN_PROGRESS == "IN_PROGRESS"
OVER == "OVER"

\* a result of an operation: the error thrown (NoError on a normal
\* return) and the fields as the operation left them
Result(err, s, e) == [err |-> err, state |-> s, engine |-> e]

\* constructor: super({moves: [], status, firstPlayer}); new Chess()
InitialState ==
  [ moves |-> << >>, status |-> WAITING_FOR_PLAYERS, firstPlayer |-> "White",
    white |-> Undefined, black |-> Undefined,
    whiteReady |-> Undefined, blackReady |-> Undefined,
    winner |-> Undefined ]

\* the boolean values of the optional ready flags
True == "true"
False == "false"

\* JavaScript truthiness of an optional flag
Truthy(x) == x = True

\* row/col (0..7, top-left origin) to the square <<file, rank>>
_toSquareFromRowCol(row, col) == << Files[col + 1], 8 - row >>

\* String.toLowerCase on a promotion letter
ToLowerCase(letter) ==
  CASE letter = "Q" -> "q" [] letter = "R" -> "r"
    [] letter = "B" -> "b" [] letter = "N" -> "n" [] OTHER -> letter

\* mutant: the white seat is always the one expected to move
_currentPlayerID_AlwaysWhite(s, e) == s.white

_currentPlayerID(s, e) == IF Turn(e) = "w" THEN s.white ELSE s.black

\* mutant: the side to move after the mate is taken for the winner
_winnerOnCheckmate_SideToMove(s, e) == IF Turn(e) = "w" THEN s.white ELSE s.black

_winnerOnCheckmate(s, e) == IF Turn(e) = "w" THEN s.black ELSE s.white

\* mutant: the black seat is filled before the white seat
_join_BlackFirst(s, player) ==
  IF s.white = player \/ s.black = player
  THEN [err |-> PLAYER_ALREADY_IN_GAME_MESSAGE, state |-> s]
  ELSE IF s.white = Undefined \/ s.black = Undefined
  THEN LET s1 == IF s.black = Undefined
                 THEN [s EXCEPT !.status = WAITING_FOR_PLAYERS, !.black = player]
                 ELSE [s EXCEPT !.status = WAITING_FOR_PLAYERS, !.white = player]
       IN  [ err |-> NoError,
             state |-> IF s1.white # Undefined /\ s1.black # Undefined
                       THEN [s1 EXCEPT !.status = WAITING_TO_START]
                       ELSE s1 ]
  ELSE [err |-> GAME_FULL_MESSAGE, state |-> s]

\* mutant: a seated player may join again
_join_SeatedAgain(s, player) ==
  IF s.white = Undefined \/ s.black = Undefined
  THEN LET s1 == IF s.white = Undefined
                 THEN [s EXCEPT !.status = WAITING_FOR_PLAYERS, !.white = player]
                 ELSE [s EXCEPT !.status = WAITING_FOR_PLAYERS, !.black = player]
       IN  [ err |-> NoError,
             state |-> IF s1.white # Undefined /\ s1.black # Undefined
                       THEN [s1 EXCEPT !.status = WAITING_TO_START]
                       ELSE s1 ]
  ELSE [err |-> GAME_FULL_MESSAGE, state |-> s]

_join(s, player) ==
  IF s.white = player \/ s.black = player
  THEN [err |-> PLAYER_ALREADY_IN_GAME_MESSAGE, state |-> s]
  ELSE IF s.white = Undefined \/ s.black = Undefined
  THEN LET s1 == IF s.white = Undefined
                 THEN [s EXCEPT !.status = WAITING_FOR_PLAYERS, !.white = player]
                 ELSE [s EXCEPT !.status = WAITING_FOR_PLAYERS, !.black = player]
       IN  [ err |-> NoError,
             state |-> IF s1.white # Undefined /\ s1.black # Undefined
                       THEN [s1 EXCEPT !.status = WAITING_TO_START]
                       ELSE s1 ]
  ELSE [err |-> GAME_FULL_MESSAGE, state |-> s]

\* mutant: the match starts as soon as one of the two flags is set
startGame_EitherReady(s, e, player) ==
  IF s.status # WAITING_TO_START
  THEN Result(GAME_NOT_STARTABLE_MESSAGE, s, e)
  ELSE IF s.white # player /\ s.black # player
  THEN Result(PLAYER_NOT_IN_GAME_MESSAGE, s, e)
  ELSE LET s1 == IF s.white = player THEN [s EXCEPT !.whiteReady = True] ELSE s
           s2 == IF s1.black = player THEN [s1 EXCEPT !.blackReady = True] ELSE s1
           both == Truthy(s2.whiteReady) \/ Truthy(s2.blackReady)
           s3 == [s2 EXCEPT !.status = IF both THEN IN_PROGRESS ELSE WAITING_TO_START]
       IN  IF both
           THEN Result(NoError, [s3 EXCEPT !.moves = << >>, !.firstPlayer = "White"],
                       NewChess)
           ELSE Result(NoError, s3, e)

\* mutant: starting keeps the move log and the position of the earlier game
startGame_KeepsGame(s, e, player) ==
  IF s.status # WAITING_TO_START
  THEN Result(GAME_NOT_STARTABLE_MESSAGE, s, e)
  ELSE IF s.white # player /\ s.black # player
  THEN Result(PLAYER_NOT_IN_GAME_MESSAGE, s, e)
  ELSE LET s1 == IF s.white = player THEN [s EXCEPT !.whiteReady = True] ELSE s
           s2 == IF s1.black = player THEN [s1 EXCEPT !.blackReady = True] ELSE s1
           both == Truthy(s2.whiteReady) /\ Truthy(s2.blackReady)
           s3 == [s2 EXCEPT !.status = IF both THEN IN_PROGRESS ELSE WAITING_TO_START]
       IN  Result(NoError, s3, e)

\* mutant: a finished match can be started like one that waits to start
startGame_FromOver(s, e, player) ==
  IF s.status # WAITING_TO_START /\ s.status # OVER
  THEN Result(GAME_NOT_STARTABLE_MESSAGE, s, e)
  ELSE IF s.white # player /\ s.black # player
  THEN Result(PLAYER_NOT_IN_GAME_MESSAGE, s, e)
  ELSE LET s1 == IF s.white = player THEN [s EXCEPT !.whiteReady = True] ELSE s
           s2 == IF s1.black = player THEN [s1 EXCEPT !.blackReady = True] ELSE s1
           both == Truthy(s2.whiteReady) /\ Truthy(s2.blackReady)
           s3 == [s2 EXCEPT !.status = IF both THEN IN_PROGRESS ELSE WAITING_TO_START]
       IN  IF both
           THEN Result(NoError, [s3 EXCEPT !.moves = << >>, !.firstPlayer = "White"],
                       NewChess)
           ELSE Result(NoError, s3, e)

\* mutant: a restart clears the move log but keeps the old position
startGame_KeepsPosition(s, e, player) ==
  IF s.status # WAITING_TO_START
  THEN Result(GAME_NOT_STARTABLE_MESSAGE, s, e)
  ELSE IF s.white # player /\ s.black # player
  THEN Result(PLAYER_NOT_IN_GAME_MESSAGE, s, e)
  ELSE LET s1 == IF s.white = player THEN [s EXCEPT !.whiteReady = True] ELSE s
           s2 == IF s1.black = player THEN [s1 EXCEPT !.blackReady = True] ELSE s1
           both == Truthy(s2.whiteReady) /\ Truthy(s2.blackReady)
           s3 == [s2 EXCEPT !.status = IF both THEN IN_PROGRESS ELSE WAITING_TO_START]
       IN  IF both
           THEN Result(NoError, [s3 EXCEPT !.moves = << >>, !.firstPlayer = "White"], e)
           ELSE Result(NoError, s3, e)

startGame(s, e, player) ==
  IF s.status # WAITING_TO_START
  THEN Result(GAME_NOT_STARTABLE_MESSAGE, s, e)
  ELSE IF s.white # player /\ s.black # player
  THEN Result(PLAYER_NOT_IN_GAME_MESSAGE, s, e)
  ELSE LET s1 == IF s.white = player THEN [s EXCEPT !.whiteReady = True] ELSE s
           s2 == IF s1.black = player THEN [s1 EXCEPT !.blackReady = True] ELSE s1
           both == Truthy(s2.whiteReady) /\ Truthy(s2.blackReady)
           s3 == [s2 EXCEPT !.status = IF both THEN IN_PROGRESS ELSE WAITING_TO_START]
       IN  IF both
           THEN Result(NoError, [s3 EXCEPT !.moves = << >>, !.firstPlayer = "White"],
                       NewChess)
           ELSE Result(NoError, s3, e)

InBounds(n) == n >= 0 /\ n < 8

\* mutant: a promotion letter is accepted for a pawn on any rank
promotionRuleBroken_AnyRank(isPawn, reachesLastRank, promotion) ==
  \/ promotion # Undefined /\ ~isPawn
  \/ promotion = Undefined /\ isPawn /\ reachesLastRank

\* the promotion sanity checks of _validateMove: a letter needs a pawn
\* reaching the last rank, and such a pawn needs a letter
promotionRuleBroken(isPawn, reachesLastRank, promotion) ==
  \/ promotion # Undefined /\ (~isPawn \/ ~reachesLastRank)
  \/ promotion = Undefined /\ isPawn /\ reachesLastRank

\* mutant: the claimed color is checked before the coordinates
_validateMove_ColorFirst(e, move) ==
  IF move.gamePiece # (IF Turn(e) = "w" THEN "White" ELSE "Black")
  THEN MOVE_NOT_YOUR_TURN_MESSAGE
  ELSE IF \/ ~InBounds(move.oldRow) \/ ~InBounds(move.oldCol)
          \/ ~InBounds(move.newRow) \/ ~InBounds(move.newCol)
  THEN BOARD_POSITION_NOT_VALID_MESSAGE
  ELSE IF move.oldRow = move.newRow /\ move.oldCol = move.newCol
  THEN BOARD_POSITION_NOT_VALID_MESSAGE
  ELSE
    LET from == _toSquareFromRowCol(move.oldRow, move.oldCol)
        to == _toSquareFromRowCol(move.newRow, move.newCol)
        engineTurn == Turn(e)
        pieceAtFrom == Get(e, from)
        isPawn == TypeOf(pieceAtFrom) = "p"
        toRank == to[2]
        reachesLastRank ==
          (engineTurn = "w" /\ toRank = 8) \/ (engineTurn = "b" /\ toRank = 1)
        promotion == IF move.promotion # Undefined
                     THEN ToLowerCase(move.promotion) ELSE Undefined
        test == ChessFromFen(Fen(e))
    IN  IF pieceAtFrom = Empty THEN BOARD_POSITION_NOT_VALID_MESSAGE
        ELSE IF ColorOf(pieceAtFrom) # engineTurn THEN MOVE_NOT_YOUR_TURN_MESSAGE
        ELSE IF promotionRuleBroken(isPawn, reachesLastRank, promotion)
        THEN BOARD_POSITION_NOT_VALID_MESSAGE
        ELSE IF ~EngineMove(test, from, to, promotion).ok
        THEN BOARD_POSITION_NOT_VALID_MESSAGE
        ELSE NoError

\* the error _validateMove throws, NoError when the move passes
_validateMove(e, move) ==
  IF \/ ~InBounds(move.oldRow) \/ ~InBounds(move.oldCol)
     \/ ~InBounds(move.newRow) \/ ~InBounds(move.newCol)
  THEN BOARD_POSITION_NOT_VALID_MESSAGE
  ELSE IF move.oldRow = move.newRow /\ move.oldCol = move.newCol
  THEN BOARD_POSITION_NOT_VALID_MESSAGE
  ELSE
    LET from == _toSquareFromRowCol(move.oldRow, move.oldCol)
        to == _toSquareFromRowCol(move.newRow, move.newCol)
        engineTurn == Turn(e)
        expectedColor == IF engineTurn = "w" THEN "White" ELSE "Black"
        pieceAtFrom == Get(e, from)
        isPawn == TypeOf(pieceAtFrom) = "p"
        toRank == to[2]
        reachesLastRank ==
          (engineTurn = "w" /\ toRank = 8) \/ (engineTurn = "b" /\ toRank = 1)
        promotion == IF move.promotion # Undefined
                     THEN ToLowerCase(move.promotion) ELSE Undefined
        test == ChessFromFen(Fen(e))
    IN  IF move.gamePiece # expectedColor THEN MOVE_NOT_YOUR_TURN_MESSAGE
        ELSE IF pieceAtFrom = Empty THEN BOARD_POSITION_NOT_VALID_MESSAGE
        ELSE IF ColorOf(pieceAtFrom) # engineTurn THEN MOVE_NOT_YOUR_TURN_MESSAGE
        ELSE IF promotionRuleBroken(isPawn, reachesLastRank, promotion)
        THEN BOARD_POSITION_NOT_VALID_MESSAGE
        ELSE IF ~EngineMove(test, from, to, promotion).ok
        THEN BOARD_POSITION_NOT_VALID_MESSAGE
        ELSE NoError

\* mutant: the promotion letter is not passed on, the pawn becomes a queen
_applyMove_AlwaysQueen(e, move) ==
  LET from == _toSquareFromRowCol(move.oldRow, move.oldCol)
      to == _toSquareFromRowCol(move.newRow, move.newCol)
      result == EngineMove(e, from, to, "q")
  IN  IF ~result.ok
      THEN [err |-> BOARD_POSITION_NOT_VALID_MESSAGE, engine |-> result.engine]
      ELSE [err |-> NoError, engine |-> result.engine]

\* _applyMove: [err, engine]
_applyMove(e, move) ==
  LET from == _toSquareFromRowCol(move.oldRow, move.oldCol)
      to == _toSquareFromRowCol(move.newRow, move.newCol)
      promotion == IF move.promotion # Undefined
                   THEN ToLowerCase(move.promotion) ELSE Undefined
      result == EngineMove(e, from, to, promotion)
  IN  IF ~result.ok
      THEN [err |-> BOARD_POSITION_NOT_VALID_MESSAGE, engine |-> result.engine]
      ELSE [err |-> NoError, engine |-> result.engine]

_checkForGameEnding(s, e) ==
  IF InCheckmate(e)
  THEN [s EXCEPT !.status = OVER, !.winner = _winnerOnCheckmate(s, e),
                 !.whiteReady = False, !.blackReady = False]
  ELSE IF InStalemate(e) \/ InsufficientMaterial(e)
          \/ InThreefoldRepetition(e) \/ InDraw(e)
  THEN [s EXCEPT !.status = OVER, !.winner = Undefined,
                 !.whiteReady = False, !.blackReady = False]
  ELSE s

\* the tail of applyMove: validate, apply, log, look for the end
commitMove(s, e, request) ==
  LET verr == _validateMove(e, request.move)
  IN  IF verr # NoError THEN Result(verr, s, e)
      ELSE LET applied == _applyMove(e, request.move)
           IN  IF applied.err # NoError
               THEN Result(applied.err, s, applied.engine)
               ELSE Result(NoError,
                           _checkForGameEnding(
                             [s EXCEPT !.moves = Append(s.moves, request.move)],
                             applied.engine),
                           applied.engine)

\* mutant: the seat is checked before the status
applyMove_SeatFirst(s, e, request) ==
  IF request.playerID # s.white /\ request.playerID # s.black
  THEN Result(PLAYER_NOT_IN_GAME_MESSAGE, s, e)
  ELSE IF s.status # IN_PROGRESS
  THEN Result(GAME_NOT_IN_PROGRESS_MESSAGE, s, e)
  ELSE IF _currentPlayerID(s, e) = Undefined
          \/ request.playerID # _currentPlayerID(s, e)
  THEN Result(MOVE_NOT_YOUR_TURN_MESSAGE, s, e)
  ELSE commitMove(s, e, request)

\* mutant: any seated player may move
applyMove_NoTurnCheck(s, e, request) ==
  IF s.status # IN_PROGRESS
  THEN Result(GAME_NOT_IN_PROGRESS_MESSAGE, s, e)
  ELSE IF request.playerID # s.white /\ request.playerID # s.black
  THEN Result(PLAYER_NOT_IN_GAME_MESSAGE, s, e)
  ELSE commitMove(s, e, request)

\* request = [playerID, move]
applyMove(s, e, request) ==
  IF s.status # IN_PROGRESS
  THEN Result(GAME_NOT_IN_PROGRESS_MESSAGE, s, e)
  ELSE IF request.playerID # s.white /\ request.playerID # s.black
  THEN Result(PLAYER_NOT_IN_GAME_MESSAGE, s, e)
  ELSE IF _currentPlayerID(s, e) = Undefined
          \/ request.playerID # _currentPlayerID(s, e)
  THEN Result(MOVE_NOT_YOUR_TURN_MESSAGE, s, e)
  ELSE commitMove(s, e, request)

\* removePlayer inside _leave: [err, state, color]
removePlayer(s, playerID) ==
  IF s.white = playerID
  THEN [err |-> NoError, state |-> [s EXCEPT !.white = Undefined], color |-> 0]
  ELSE IF s.black = playerID
  THEN [err |-> NoError, state |-> [s EXCEPT !.black = Undefined], color |-> 1]
  ELSE [err |-> PLAYER_NOT_IN_GAME_MESSAGE, state |-> s, color |-> 0 - 1]

\* mutant: the ready flags are cleared before the seat is looked up
_leave_ClearsFirst(s, player) ==
  LET s0 == [s EXCEPT !.whiteReady = False, !.blackReady = False]
      r == removePlayer(s0, player)
      s1 == r.state
  IN  IF r.err # NoError THEN [err |-> r.err, state |-> s1]
      ELSE IF s1.status \in {WAITING_TO_START, WAITING_FOR_PLAYERS, OVER}
      THEN [ err |-> NoError,
             state |-> [s1 EXCEPT !.status = WAITING_FOR_PLAYERS] ]
      ELSE [ err |-> NoError,
             state |-> [s1 EXCEPT !.status = OVER,
                                  !.winner = IF r.color = 0 THEN s1.black ELSE s1.white] ]

\* mutant: the winner is read from the seat that was just vacated
_leave_VacatedSeatWins(s, player) ==
  LET r == removePlayer(s, player)
      s1 == r.state
  IN  IF r.err # NoError THEN [err |-> r.err, state |-> s1]
      ELSE IF s1.status \in {WAITING_TO_START, WAITING_FOR_PLAYERS, OVER}
      THEN [ err |-> NoError,
             state |-> [s1 EXCEPT !.status = WAITING_FOR_PLAYERS,
                                  !.whiteReady = False, !.blackReady = False] ]
      ELSE [ err |-> NoError,
             state |-> [s1 EXCEPT !.status = OVER,
                                  !.winner = IF r.color = 0 THEN s1.white ELSE s1.black,
                                  !.whiteReady = False, !.blackReady = False] ]

\* mutant: leaving a match that is not in progress keeps the ready flags
_leave_KeepsReady(s, player) ==
  LET r == removePlayer(s, player)
      s1 == r.state
  IN  IF r.err # NoError THEN [err |-> r.err, state |-> s1]
      ELSE IF s1.status \in {WAITING_TO_START, WAITING_FOR_PLAYERS, OVER}
      THEN [ err |-> NoError,
             state |-> [s1 EXCEPT !.status = WAITING_FOR_PLAYERS] ]
      ELSE [ err |-> NoError,
             state |-> [s1 EXCEPT !.status = OVER,
                                  !.winner = IF r.color = 0 THEN s1.black ELSE s1.white,
                                  !.whiteReady = False, !.blackReady = False] ]

_leave(s, player) ==
  LET r == removePlayer(s, player)
      s1 == r.state
  IN  IF r.err # NoError THEN [err |-> r.err, state |-> s1]
      ELSE IF s1.status \in {WAITING_TO_START, WAITING_FOR_PLAYERS, OVER}
      THEN [ err |-> NoError,
             state |-> [s1 EXCEPT !.status = WAITING_FOR_PLAYERS,
                                  !.whiteReady = False, !.blackReady = False] ]
      ELSE [ err |-> NoError,
             state |-> [s1 EXCEPT !.status = OVER,
                                  !.winner = IF r.color = 0 THEN s1.black ELSE s1.white,
                                  !.whiteReady = False, !.blackReady = False] ]

\* ------------------------------------------------------------------------
\* the client (frontend/src/classes/interactable/ChessAreaController.ts)
\* ------------------------------------------------------------------------
\* the id of the player whose turn the client shows, by move-log parity
whoseTurn(s) ==
  IF s.status # IN_PROGRESS THEN Undefined
  ELSE LET movesSoFar == Len(s.moves)
           whiteToMove == IF s.firstPlayer = "White"
                          THEN movesSoFar % 2 = 0 ELSE movesSoFar % 2 = 1
       IN  IF whiteToMove THEN s.white ELSE s.black

NoRequest ==
  [ playerID |-> Undefined,
    move |-> [ gamePiece |-> Undefined, oldRow |-> 0, oldCol |-> 0,
               newRow |-> 0, newCol |-> 0, promotion |-> Undefined ] ]

\* makeMove(oldRow, oldCol, newRow, newCol, promotion) of the client of
\* player ourID: the error it throws, or NoError and the GameMove request
\* it sends
makeMove(s, ourID, c) ==
  IF s.status # IN_PROGRESS
  THEN [err |-> "NO_GAME_IN_PROGRESS_ERROR", request |-> NoRequest]
  ELSE IF ourID # s.white /\ ourID # s.black
  THEN [err |-> "PLAYER_NOT_IN_GAME_ERROR", request |-> NoRequest]
  ELSE IF whoseTurn(s) = Undefined \/ whoseTurn(s) # ourID
  THEN [err |-> "NOT_YOUR_TURN_ERROR", request |-> NoRequest]
  ELSE [ err |-> NoError,
         request |->
           [ playerID |-> ourID,
             move |-> [ gamePiece |-> IF whoseTurn(s) = s.white
                                      THEN "White" ELSE "Black",
                        oldRow |-> c.oldRow, oldCol |-> c.oldCol,
                        newRow |-> c.newRow, newCol |-> c.newCol,
                        promotion |-> c.promotion ] ] ]

\* the client's board: 64 cells, row 0 (rank 8) first, Undefined when empty
ClientInitialBoard ==
  [ i \in 1..64 |-> IF InitialBoard[i] = Empty THEN Undefined ELSE InitialBoard[i] ]

\* one round of the replay loop of _updateFrom: the cell on the source
\* square goes to the destination, or the promotion letter in the mover's
\* case when a promotion is named and the moving cell is a pawn
ReplayMove(board, mv) ==
  LET movingPiece == board[Idx(mv.oldRow, mv.oldCol)]
      cleared == [board EXCEPT ![Idx(mv.oldRow, mv.oldCol)] = Undefined]
  IN  IF mv.promotion # Undefined /\ movingPiece \in {"P", "p"}
      THEN [cleared EXCEPT ![Idx(mv.newRow, mv.newCol)] =
              IF mv.gamePiece = "White" THEN mv.promotion
              ELSE ToLowerCase(mv.promotion)]
      ELSE [cleared EXCEPT ![Idx(mv.newRow, mv.newCol)] = movingPiece]

RECURSIVE ReplayFrom(_, _)
ReplayFrom(board, moves) ==
  IF moves = << >> THEN board
  ELSE ReplayFrom(ReplayMove(board, Head(moves)), Tail(moves))

\* the board _updateFrom gives the client for a game's state
_updateFrom(s) == ReplayFrom(ClientInitialBoard, s.moves)

\* ------------------------------------------------------------------------
\* ChessGame, the bot-match operations that ChessGameArea calls
\* ------------------------------------------------------------------------
\* game.turnColor: the color to move
turnColor(e) == IF Turn(e) = "w" THEN "White" ELSE "Black"

\* game.configureBotGame(player, humanColor, botID): a fresh match in
\* progress, the human seated as humanColor and the bot id on the other seat
configureBotGame(s, e, player, humanColor, botID) ==
  Result(NoError,
         [ moves |-> << >>, status |-> IN_PROGRESS, firstPlayer |-> "White",
           white |-> IF humanColor = "White" THEN player ELSE botID,
           black |-> IF humanColor = "White" THEN botID ELSE player,
           whiteReady |-> True, blackReady |-> True,
           winner |-> Undefined ],
         NewChess)

\* ------------------------------------------------------------------------
\* ChessGameArea (townService/src/town/games/ChessGameArea.ts)
\* ------------------------------------------------------------------------
GAME_ID_MISSMATCH_MESSAGE == "GAME_ID_MISSMATCH"
INVALID_COMMAND_MESSAGE == "INVALID_COMMAND"

_BOT_PLAYER_ID == "_BOT_"

\* this._game is undefined
NoGame == 0

\* the fields of a new area
InitialArea ==
  [ game |-> NoGame, created |-> 0, history |-> << >>,
    isBotGame |-> FALSE, botColor |-> "Black", bot |-> Undefined ]

\* the area, its current match and what is still referenced by bot tasks:
\* pending computations and the matches they hold that the area replaced
World(a, s, e, pend, old) ==
  [area |-> a, state |-> s, engine |-> e, pending |-> pend, retired |-> old]

\* what a command did besides changing the world: notifications emitted,
\* computations scheduled, the id returned, whether the old bot was quit,
\* the error a bot task swallowed
Outcome(emits, scheduled, id, quit, caught) ==
  [ emits |-> emits, scheduled |-> scheduled, gameID |-> id,
    quit |-> quit, caught |-> caught ]

NoOutcome == Outcome(0, 0, NoGame, FALSE, NoError)

\* the userName of the occupant with this id, the id itself otherwise
UserName(id) ==
  IF id = "p1" THEN "alice" ELSE IF id = "p2" THEN "bob" ELSE id

\* mutant: the white score is the black seat's
GameResult_BlackScoresTwice(gameID, model) ==
  LET whiteName == UserName(model.white)
      blackName == UserName(model.black)
  IN  [ gameID |-> gameID,
        scores |-> [ n \in {whiteName, blackName} |->
                       IF model.winner = model.black THEN 1 ELSE 0 ] ]

\* the history entry of a finished match
GameResult(gameID, model) ==
  LET whiteName == UserName(model.white)
      blackName == UserName(model.black)
  IN  [ gameID |-> gameID,
        scores |-> [ n \in {whiteName, blackName} |->
                       IF n = blackName
                       THEN IF model.winner = model.black THEN 1 ELSE 0
                       ELSE IF model.winner = model.white THEN 1 ELSE 0 ] ]

\* _stateUpdated: the area after it (one notification is emitted)
_stateUpdated(a, model) ==
  IF /\ model.status = OVER
     /\ a.game # NoGame
     /\ model.white # Undefined /\ model.black # Undefined
  THEN [a EXCEPT !.history = Append(@, GameResult(a.game, model))]
  ELSE a

\* a pending computation: the match it will move in and the position sent
BotTask(gameID, e) == [game |-> gameID, fen |-> Fen(e)]

\* mutant: a computation is scheduled whatever the status
_scheduleBotMove_AnyStatus(w) ==
  IF ~w.area.isBotGame THEN w
  ELSE IF turnColor(w.engine) # w.area.botColor THEN w
  ELSE [w EXCEPT !.pending = Append(@, BotTask(w.area.game, w.engine))]

\* _scheduleBotMove up to the await: the world with the task added
_scheduleBotMove(w) ==
  IF ~w.area.isBotGame THEN w
  ELSE IF w.state.status # IN_PROGRESS THEN w
  ELSE IF turnColor(w.engine) # w.area.botColor THEN w
  ELSE [w EXCEPT !.pending = Append(@, BotTask(w.area.game, w.engine))]

\* the area drops its current match: it stays reachable only while a
\* pending task holds it
Retire(w) ==
  IF w.area.game # NoGame
     /\ \E i \in 1..Len(w.pending) : w.pending[i].game = w.area.game
  THEN w.retired \cup { [id |-> w.area.game, state |-> w.state, engine |-> w.engine] }
  ELSE w.retired

\* what handleCommand gives back: the error thrown, the world, the outcome
Handled(err, w, out) == [err |-> err, world |-> w, out |-> out]

\* the area makes a new match its current one
NewGame(w) ==
  [w EXCEPT !.retired = Retire(w),
            !.area.game = w.area.created + 1,
            !.area.created = w.area.created + 1,
            !.state = InitialState,
            !.engine = NewChess]

\* handleCommand, _command.type === 'GameMove'
handleGameMove(w, command, player) ==
  IF w.area.game = NoGame
  THEN Handled(GAME_NOT_IN_PROGRESS_MESSAGE, w, NoOutcome)
  ELSE IF w.area.game # command.gameID
  THEN Handled(GAME_ID_MISSMATCH_MESSAGE, w, NoOutcome)
  ELSE LET Moved(r) ==
             IF r.err # NoError
             THEN Handled(r.err, [w EXCEPT !.state = r.state,
                                           !.engine = r.engine], NoOutcome)
             ELSE LET w2 == [w EXCEPT !.state = r.state, !.engine = r.engine,
                                      !.area = _stateUpdated(w.area, r.state)]
                      Scheduled(w3) ==
                        Handled(NoError, w3,
                                Outcome(1, Len(w3.pending) - Len(w.pending),
                                        NoGame, FALSE, NoError))
                  IN  Scheduled(IF w.area.isBotGame
                                THEN _scheduleBotMove(w2) ELSE w2)
       IN  Moved(applyMove(w.state, w.engine,
                           [playerID |-> player, move |-> command.move]))

\* mutant: JoinGame joins a match that is over
handleJoinGame_KeepsOver(w, command, player) ==
  LET fresh == \/ w.area.game = NoGame
               \/ w.area.isBotGame
      quit == fresh /\ w.area.bot # Undefined
      w0 == IF fresh
            THEN [NewGame(w) EXCEPT !.area.bot = Undefined,
                                    !.area.isBotGame = FALSE]
            ELSE w
      Joined(w1, r) ==
        IF r.err # NoError
        THEN Handled(r.err, [w1 EXCEPT !.state = r.state],
                     Outcome(0, 0, NoGame, quit, NoError))
        ELSE Handled(NoError,
                     [w1 EXCEPT !.state = r.state,
                                !.area = _stateUpdated(w1.area, r.state)],
                     Outcome(1, 0, w1.area.game, quit, NoError))
  IN  Joined(w0, _join(w0.state, player))

\* handleCommand, _command.type === 'JoinGame'
handleJoinGame(w, command, player) ==
  LET fresh == \/ w.area.game = NoGame
               \/ w.state.status = OVER
               \/ w.area.isBotGame
      quit == fresh /\ w.area.bot # Undefined
      w0 == IF fresh
            THEN [NewGame(w) EXCEPT !.area.bot = Undefined,
                                    !.area.isBotGame = FALSE]
            ELSE w
      Joined(w1, r) ==
        IF r.err # NoError
        THEN Handled(r.err, [w1 EXCEPT !.state = r.state],
                     Outcome(0, 0, NoGame, quit, NoError))
        ELSE Handled(NoError,
                     [w1 EXCEPT !.state = r.state,
                                !.area = _stateUpdated(w1.area, r.state)],
                     Outcome(1, 0, w1.area.game, quit, NoError))
  IN  Joined(w0, _join(w0.state, player))

\* mutant: JoinBotGame always makes a new match
handleJoinBotGame_AlwaysNew(w, command, player) ==
  LET difficulty == IF command.difficulty = Undefined
                    THEN "medium" ELSE command.difficulty
      humanColor == IF command.color = Undefined THEN "White" ELSE command.color
      quit == w.area.bot # Undefined
      w0 == NewGame(w)
      w1 == [w0 EXCEPT !.area.bot = difficulty,
                       !.area.isBotGame = TRUE,
                       !.area.botColor = IF humanColor = "White"
                                         THEN "Black" ELSE "White"]
      r == configureBotGame(w1.state, w1.engine, player, humanColor,
                            _BOT_PLAYER_ID)
      w2 == [w1 EXCEPT !.state = r.state, !.engine = r.engine]
      w3 == [w2 EXCEPT !.area = _stateUpdated(w2.area, r.state)]
      w4 == IF turnColor(w3.engine) = w3.area.botColor
            THEN _scheduleBotMove(w3) ELSE w3
  IN  IF r.err # NoError
      THEN Handled(r.err, w2, Outcome(0, 0, NoGame, quit, NoError))
      ELSE Handled(NoError, w4,
                   Outcome(1, Len(w4.pending) - Len(w.pending), w4.area.game,
                           quit, NoError))

\* handleCommand, _command.type === 'JoinBotGame'
handleJoinBotGame(w, command, player) ==
  LET difficulty == IF command.difficulty = Undefined
                    THEN "medium" ELSE command.difficulty
      humanColor == IF command.color = Undefined THEN "White" ELSE command.color
      fresh == \/ w.area.game = NoGame
               \/ w.state.status = OVER
               \/ ~w.area.isBotGame
      quit == w.area.bot # Undefined
      w0 == IF fresh THEN NewGame(w) ELSE w
      w1 == [w0 EXCEPT !.area.bot = difficulty,
                       !.area.isBotGame = TRUE,
                       !.area.botColor = IF humanColor = "White"
                                         THEN "Black" ELSE "White"]
      r == configureBotGame(w1.state, w1.engine, player, humanColor,
                            _BOT_PLAYER_ID)
      w2 == [w1 EXCEPT !.state = r.state, !.engine = r.engine]
      w3 == [w2 EXCEPT !.area = _stateUpdated(w2.area, r.state)]
      w4 == IF turnColor(w3.engine) = w3.area.botColor
            THEN _scheduleBotMove(w3) ELSE w3
  IN  IF r.err # NoError
      THEN Handled(r.err, w2, Outcome(0, 0, NoGame, quit, NoError))
      ELSE Handled(NoError, w4,
                   Outcome(1, Len(w4.pending) - Len(w.pending), w4.area.game,
                           quit, NoError))

\* mutant: LeaveGame does not compare the id
handleLeaveGame_AnyId(w, command, player) ==
  IF w.area.game = NoGame
  THEN Handled(GAME_NOT_IN_PROGRESS_MESSAGE, w, NoOutcome)
  ELSE LET Left(r) ==
             IF r.err # NoError
             THEN Handled(r.err, [w EXCEPT !.state = r.state], NoOutcome)
             ELSE Handled(NoError,
                          [w EXCEPT !.state = r.state,
                                    !.area = _stateUpdated(w.area, r.state)],
                          Outcome(1, 0, NoGame, FALSE, NoError))
       IN  Left(_leave(w.state, player))

\* handleCommand, _command.type === 'LeaveGame'
handleLeaveGame(w, command, player) ==
  IF w.area.game = NoGame
  THEN Handled(GAME_NOT_IN_PROGRESS_MESSAGE, w, NoOutcome)
  ELSE IF w.area.game # command.gameID
  THEN Handled(GAME_ID_MISSMATCH_MESSAGE, w, NoOutcome)
  ELSE LET Left(r) ==
             IF r.err # NoError
             THEN Handled(r.err, [w EXCEPT !.state = r.state], NoOutcome)
             ELSE Handled(NoError,
                          [w EXCEPT !.state = r.state,
                                    !.area = _stateUpdated(w.area, r.state)],
                          Outcome(1, 0, NoGame, FALSE, NoError))
       IN  Left(_leave(w.state, player))

\* mutant: StartGame notifies before it calls the match
handleStartGame_EmitsFirst(w, command, player) ==
  IF w.area.game = NoGame
  THEN Handled(GAME_NOT_IN_PROGRESS_MESSAGE, w, NoOutcome)
  ELSE IF w.area.game # command.gameID
  THEN Handled(GAME_ID_MISSMATCH_MESSAGE, w, NoOutcome)
  ELSE IF w.area.isBotGame THEN Handled(NoError, w, NoOutcome)
  ELSE LET Started(r) ==
             IF r.err # NoError
             THEN Handled(r.err, [w EXCEPT !.state = r.state,
                                           !.engine = r.engine],
                          Outcome(1, 0, NoGame, FALSE, NoError))
             ELSE Handled(NoError,
                          [w EXCEPT !.state = r.state, !.engine = r.engine,
                                    !.area = _stateUpdated(w.area, r.state)],
                          Outcome(1, 0, NoGame, FALSE, NoError))
       IN  Started(startGame(w.state, w.engine, player))

\* handleCommand, _command.type === 'StartGame'
handleStartGame(w, command, player) ==
  IF w.area.game = NoGame
  THEN Handled(GAME_NOT_IN_PROGRESS_MESSAGE, w, NoOutcome)
  ELSE IF w.area.game # command.gameID
  THEN Handled(GAME_ID_MISSMATCH_MESSAGE, w, NoOutcome)
  ELSE IF w.area.isBotGame THEN Handled(NoError, w, NoOutcome)
  ELSE LET Started(r) ==
             IF r.err # NoError
             THEN Handled(r.err, [w EXCEPT !.state = r.state,
                                           !.engine = r.engine], NoOutcome)
             ELSE Handled(NoError,
                          [w EXCEPT !.state = r.state, !.engine = r.engine,
                                    !.area = _stateUpdated(w.area, r.state)],
                          Outcome(1, 0, NoGame, FALSE, NoError))
       IN  Started(startGame(w.state, w.engine, player))

handleCommand(w, command, player) ==
  IF command.type = "GameMove" THEN handleGameMove(w, command, player)
  ELSE IF command.type = "JoinGame" THEN handleJoinGame(w, command, player)
  ELSE IF command.type = "JoinBotGame" THEN handleJoinBotGame(w, command, player)
  ELSE IF command.type = "LeaveGame" THEN handleLeaveGame(w, command, player)
  ELSE IF command.type = "StartGame" THEN handleStartGame(w, command, player)
  ELSE Handled(INVALID_COMMAND_MESSAGE, w, NoOutcome)

\* mutant: the rank is taken for the row
squareToRowCol_RankIsRow(square) ==
  [row |-> square[2] - 1, col |-> FileIndex(square[1]) - 1]

\* 'e4' -> {row, col}
squareToRowCol(square) ==
  [row |-> 8 - square[2], col |-> FileIndex(square[1]) - 1]

\* move.promotion?.toUpperCase()
ToUpperCase(letter) ==
  IF letter = "q" THEN "Q" ELSE IF letter = "r" THEN "R"
  ELSE IF letter = "b" THEN "B" ELSE IF letter = "n" THEN "N" ELSE letter

\* the match a pending task holds: the current one or a replaced one
TaskGame(w, t) ==
  IF t.game = w.area.game
  THEN [id |-> t.game, state |-> w.state, engine |-> w.engine]
  ELSE CHOOSE g \in w.retired : g.id = t.game

\* the sequence without its i-th element
RemoveAt(seq, i) ==
  [ j \in 1..(Len(seq) - 1) |-> IF j < i THEN seq[j] ELSE seq[j + 1] ]

\* the characters of a rank, and Number(ch) of one
RankChars == << "1", "2", "3", "4", "5", "6", "7", "8" >>
Number(ch) == CHOOSE n \in 1..8 : RankChars[n] = ch

\* a two-character square string as squareToRowCol reads it: square[0] is
\* the file, Number(square[1]) the rank
SquareOf(chars) == << chars[1], Number(chars[2]) >>

\* ChessBot.getBestMove: the reply string (a sequence of characters) cut
\* into from, to and the optional fifth character
ChessBot_getBestMove(output) ==
  [ from |-> SubSeq(output, 1, 2),
    to |-> SubSeq(output, 3, 4),
    promotion |-> IF Len(output) >= 5 THEN output[5] ELSE Undefined ]

\* the GameMove that _scheduleBotMove builds from the bot's move
botMoveRequest(move, botColor) ==
  [ playerID |-> _BOT_PLAYER_ID,
    move |-> [ oldRow |-> squareToRowCol(SquareOf(move.from)).row,
               oldCol |-> squareToRowCol(SquareOf(move.from)).col,
               newRow |-> squareToRowCol(SquareOf(move.to)).row,
               newCol |-> squareToRowCol(SquareOf(move.to)).col,
               promotion |-> ToUpperCase(move.promotion),
               gamePiece |-> botColor ] ]

\* `${files[col]}${8 - row}`: the square string of _toSquareFromRowCol
SquareString(row, col) ==
  << _toSquareFromRowCol(row, col)[1], RankChars[_toSquareFromRowCol(row, col)[2]] >>

\* mutant: the area is notified even when the match refused the move
botReply_NotifiesAnyway(w, i, move) ==
  LET t == w.pending[i]
      g == TaskGame(w, t)
      rest == RemoveAt(w.pending, i)
      botMove ==
        [ playerID |-> _BOT_PLAYER_ID,
          move |-> [ oldRow |-> squareToRowCol(move.from).row,
                     oldCol |-> squareToRowCol(move.from).col,
                     newRow |-> squareToRowCol(move.to).row,
                     newCol |-> squareToRowCol(move.to).col,
                     promotion |-> ToUpperCase(move.promotion),
                     gamePiece |-> w.area.botColor ] ]
      current == t.game = w.area.game
      others == { o \in w.retired : o.id # t.game }
      Applied(r) ==
        LET kept == IF ~current /\ \E j \in 1..Len(rest) : rest[j].game = t.game
                    THEN others \cup { [id |-> t.game, state |-> r.state,
                                        engine |-> r.engine] }
                    ELSE others
            w1 == [w EXCEPT !.pending = rest,
                            !.retired = kept,
                            !.state = IF current THEN r.state ELSE @,
                            !.engine = IF current THEN r.engine ELSE @]
        IN  Handled(NoError,
                    [w1 EXCEPT !.area = _stateUpdated(w.area, r.state)],
                    Outcome(1, 0, NoGame, FALSE, r.err))
  IN  Applied(applyMove(g.state, g.engine, botMove))

\* _scheduleBotMove after the await: the i-th pending computation resolved
\* with move (from, to, promotion as the engine prints them)
botReply(w, i, move) ==
  LET t == w.pending[i]
      g == TaskGame(w, t)
      rest == RemoveAt(w.pending, i)
      botMove ==
        [ playerID |-> _BOT_PLAYER_ID,
          move |-> [ oldRow |-> squareToRowCol(move.from).row,
                     oldCol |-> squareToRowCol(move.from).col,
                     newRow |-> squareToRowCol(move.to).row,
                     newCol |-> squareToRowCol(move.to).col,
                     promotion |-> ToUpperCase(move.promotion),
                     gamePiece |-> w.area.botColor ] ]
      current == t.game = w.area.game
      others == { o \in w.retired : o.id # t.game }
      Applied(r) ==
        LET kept == IF ~current /\ \E j \in 1..Len(rest) : rest[j].game = t.game
                    THEN others \cup { [id |-> t.game, state |-> r.state,
                                        engine |-> r.engine] }
                    ELSE others
            w1 == [w EXCEPT !.pending = rest,
                            !.retired = kept,
                            !.state = IF current THEN r.state ELSE @,
                            !.engine = IF current THEN r.engine ELSE @]
        IN  IF r.err # NoError
            THEN Handled(NoError, w1, Outcome(0, 0, NoGame, FALSE, r.err))
            ELSE Handled(NoError,
                         [w1 EXCEPT !.area = _stateUpdated(w.area, r.state)],
                         Outcome(1, 0, NoGame, FALSE, NoError))
  IN  Applied(applyMove(g.state, g.engine, botMove))

\* _scheduleBotMove after the await, when getBestMove rejected with error:
\* the await is outside the try block, so the task's own promise rejects
\* with it and nothing handles that
botRejected(w, i, error) ==
  Handled(error, [w EXCEPT !.pending = RemoveAt(@, i)], NoOutcome)

\* ------------------------------------------------------------------------
\* StockfishEngine (townService/src/town/games/StockfishEngine.ts): the
\* bridge to the engine subprocess. A line of the subprocess is the
\* sequence of its tokens; a command written to it likewise.
\* ------------------------------------------------------------------------
\* the bridge after its constructor: "uci" is written, nothing is awaited
NewStockfishEngine ==
  [ stdin |-> << <<"uci">> >>, _pendingResolvers |-> << >>,
    _queue |-> << >>, _busy |-> FALSE, _buffer |-> << >>,
    calls |-> 0, settled |-> << >> ]

\* _write(cmd)
_write(sf, cmd) == [sf EXCEPT !.stdin = Append(@, cmd)]

Matches_AnyLine(match, line) == Len(line) >= 1

\* the predicates getBestMove waits with: l === "readyok" and
\* l.startsWith("bestmove")
Matches(match, line) ==
  IF match = "readyok" THEN line = <<"readyok">>
  ELSE Len(line) >= 1 /\ line[1] = "bestmove"

\* _waitForLine(match): a resolver is registered for the job that awaits
_waitForLine(sf, match, job) ==
  [sf EXCEPT !._pendingResolvers = Append(@, [match |-> match, job |-> job])]

\* waitReady() up to its await
waitReady(sf, job) == _waitForLine(_write(sf, <<"isready">>), "readyok", job)

\* mutant: the next job is started although one is in flight
_dequeue_IgnoresBusy(sf) ==
  IF sf._queue = << >> THEN sf
  ELSE waitReady([sf EXCEPT !._queue = Tail(@), !._busy = TRUE],
                 Head(sf._queue))

\* _dequeue(): the first queued job runs up to its first await
_dequeue(sf) ==
  IF sf._busy THEN sf
  ELSE IF sf._queue = << >> THEN sf
  ELSE waitReady([sf EXCEPT !._queue = Tail(@), !._busy = TRUE],
                 Head(sf._queue))

\* en_queue(job)
en_queue(sf, job) == _dequeue([sf EXCEPT !._queue = Append(@, job)])

\* getBestMove(fen, depth): the call; its promise is the job's id
getBestMove(sf, fen, depth) ==
  en_queue([sf EXCEPT !.calls = @ + 1],
           [id |-> sf.calls + 1, fen |-> fen, depth |-> depth])

\* parts[1] of bestMoveLine.split(" ")
SecondToken(line) == IF Len(line) >= 2 THEN line[2] ELSE Undefined

\* mutant: the search is started without the position
Resume_GoOnly(sf, r, line) ==
  IF r.match = "readyok"
  THEN _waitForLine(_write(sf, <<"go", r.job.depth>>), "bestmove", r.job)
  ELSE _dequeue([sf EXCEPT
                   !.settled = Append(@, [job |-> r.job,
                                          result |-> SecondToken(line)]),
                   !._busy = FALSE])

\* mutant: the next job is not run when one finishes
Resume_NoDequeue(sf, r, line) ==
  IF r.match = "readyok"
  THEN _waitForLine(_write(_write(sf, <<"position", r.job.fen>>),
                           <<"go", r.job.depth>>),
                    "bestmove", r.job)
  ELSE [sf EXCEPT
          !.settled = Append(@, [job |-> r.job, result |-> SecondToken(line)]),
          !._busy = FALSE]

\* the job of resolver r goes on after its await was resolved with line:
\* after readyok it writes position and go and awaits bestmove; after
\* bestmove it settles its promise, clears _busy and runs the next job
Resume(sf, r, line) ==
  IF r.match = "readyok"
  THEN _waitForLine(_write(_write(sf, <<"position", r.job.fen>>),
                           <<"go", r.job.depth>>),
                    "bestmove", r.job)
  ELSE _dequeue([sf EXCEPT
                   !.settled = Append(@, [job |-> r.job,
                                          result |-> SecondToken(line)]),
                   !._busy = FALSE])

\* mutant: the resolver registered last is offered the line first
_handleLine_LastFirst(sf, line) ==
  LET hits == { i \in 1..Len(sf._pendingResolvers) :
                  Matches(sf._pendingResolvers[i].match, line) }
  IN  IF hits = {} THEN sf
      ELSE LET i == CHOOSE h \in hits : \A k \in hits : k <= h
           IN  Resume([sf EXCEPT !._pendingResolvers = RemoveAt(@, i)],
                      sf._pendingResolvers[i], line)

\* _handleLine(line): the first resolver that matches consumes the line
_handleLine(sf, line) ==
  LET hits == { i \in 1..Len(sf._pendingResolvers) :
                  Matches(sf._pendingResolvers[i].match, line) }
  IN  IF hits = {} THEN sf
      ELSE LET i == CHOOSE h \in hits : \A k \in hits : h <= k
           IN  Resume([sf EXCEPT !._pendingResolvers = RemoveAt(@, i)],
                      sf._pendingResolvers[i], line)

\* the subprocess's output as characters: what it will still write, what
\* the 'data' handler has received, and the lines _process handed to
\* _handleLine
NewStdout == [stream |-> << >>, received |-> << >>, lines |-> << >>]

Newline == "\n"
Whitespace == {" ", "\r"}

\* String.split("\n"): the pieces between the newlines, the last one the
\* text after the last newline
RECURSIVE SplitLines(_, _)
SplitLines(text, piece) ==
  IF text = << >> THEN << piece >>
  ELSE IF Head(text) = Newline
  THEN << piece >> \o SplitLines(Tail(text), << >>)
  ELSE SplitLines(Tail(text), Append(piece, Head(text)))

\* String.trim()
RECURSIVE TrimStart(_)
TrimStart(text) ==
  IF text # << >> /\ Head(text) \in Whitespace THEN TrimStart(Tail(text)) ELSE text

RECURSIVE TrimEnd(_)
TrimEnd(text) ==
  IF text # << >> /\ text[Len(text)] \in Whitespace
  THEN TrimEnd(SubSeq(text, 1, Len(text) - 1)) ELSE text

Trim(text) == TrimEnd(TrimStart(text))

\* the lines of a list handed to _handleLine one after the other
RECURSIVE HandleLines(_, _)
HandleLines(sf, lines) ==
  IF lines = << >> THEN sf
  ELSE HandleLines(_handleLine(sf, Trim(Head(lines))), Tail(lines))

\* mutant: the text after the last newline is thrown away
_process_DropsTail(sf) ==
  LET lines == SplitLines(sf._buffer, << >>)
      whole == SubSeq(lines, 1, Len(lines) - 1)
  IN  [ sf |-> HandleLines([sf EXCEPT !._buffer = << >>], whole),
        handled |-> [ k \in 1..Len(whole) |-> Trim(whole[k]) ] ]

\* _process(): [sf, handled], the bridge afterwards and the lines it handed
\* to _handleLine
_process(sf) ==
  LET lines == SplitLines(sf._buffer, << >>)
      whole == SubSeq(lines, 1, Len(lines) - 1)
  IN  [ sf |-> HandleLines([sf EXCEPT !._buffer = lines[Len(lines)]], whole),
        handled |-> [ k \in 1..Len(whole) |-> Trim(whole[k]) ] ]

\* the stdout 'data' handler: the chunk is added to the buffer, then _process
OnData(sf, data) == _process([sf EXCEPT !._buffer = @ \o data])

\* quit(): "quit" is written (and the child is killed)
quit(sf) == _write(sf, <<"quit">>)

\* the subprocess: whether it runs, how many commands it has read, the
\* position it was given, and its output that the bridge has not read yet
NewChild == [alive |-> TRUE, read |-> 0, position |-> Undefined, pipe |-> << >>]

\* the move the engine finds in a position
BestMoveOf(fen) == IF fen = "start" THEN "e2e4" ELSE "e7e5"

\* the lines the engine may answer a command with: the protocol's answer,
\* and for a search also a bestmove line that carries no move
Answers(c, cmd) ==
  IF cmd[1] = "uci" THEN { << <<"id", "name">>, <<"uciok">> >> }
  ELSE IF cmd[1] = "isready" THEN { << <<"readyok">> >> }
  ELSE IF cmd[1] = "go"
  THEN { << <<"info", "depth">>, <<"bestmove", BestMoveOf(c.position)>> >>,
         << <<"bestmove">> >> }
  ELSE { << >> }

\* the subprocess reads its next command and answers it with out
ChildStep(c, cmd, out) ==
  [c EXCEPT !.read = @ + 1,
            !.position = IF cmd[1] = "position" THEN cmd[2] ELSE @,
            !.alive = cmd[1] # "quit",
            !.pipe = @ \o out]

\* ------------------------------------------------------------------------
\* callers: the players and the moves they submit
\* ------------------------------------------------------------------------
\* longest move log explored
MaxMoves == 9

Players == {"p1", "p2", "p3"}
Opponents == {"p1", "p2"}

makeChessMove(from, to, color, promotion) ==
  [ gamePiece |-> color,
    oldRow |-> squareToRowCol(from).row, oldCol |-> squareToRowCol(from).col,
    newRow |-> squareToRowCol(to).row, newCol |-> squareToRowCol(to).col,
    promotion |-> promotion ]

NoMove == [ gamePiece |-> Undefined, oldRow |-> 0, oldCol |-> 0,
            newRow |-> 0, newCol |-> 0, promotion |-> Undefined ]

\* the arguments of a client's makeMove
Click(from, to, promotion) == makeChessMove(from, to, Undefined, promotion)

\* moves submitted in the seating scenarios: the fool's mate, a move from
\* an empty square and a move of the opponent's pawn
Moves ==
  { makeChessMove(<<"f", 2>>, <<"f", 3>>, "White", Undefined),
    makeChessMove(<<"e", 7>>, <<"e", 5>>, "Black", Undefined),
    makeChessMove(<<"g", 2>>, <<"g", 4>>, "White", Undefined),
    makeChessMove(<<"d", 8>>, <<"h", 4>>, "Black", Undefined),
    makeChessMove(<<"a", 3>>, <<"a", 4>>, "White", Undefined),
    makeChessMove(<<"e", 7>>, <<"e", 5>>, "White", Undefined) }

\* clicks of the end-of-game scenarios: the fool's mate and the knight
\* shuffle that repeats the initial position
EndClicks ==
  { Click(<<"f", 2>>, <<"f", 3>>, Undefined),
    Click(<<"e", 7>>, <<"e", 5>>, Undefined),
    Click(<<"g", 2>>, <<"g", 4>>, Undefined),
    Click(<<"d", 8>>, <<"h", 4>>, Undefined),
    Click(<<"g", 1>>, <<"f", 3>>, Undefined),
    Click(<<"f", 3>>, <<"g", 1>>, Undefined),
    Click(<<"g", 8>>, <<"f", 6>>, Undefined),
    Click(<<"f", 6>>, <<"g", 8>>, Undefined) }

\* clicks of the special-move scenarios: a capture en passant (e4 a6 e5 d5
\* exd6) and a castling (e4, Nf3, Bc4, O-O)
ReplayClicks ==
  { Click(<<"e", 2>>, <<"e", 4>>, Undefined),
    Click(<<"a", 7>>, <<"a", 6>>, Undefined),
    Click(<<"e", 4>>, <<"e", 5>>, Undefined),
    Click(<<"d", 7>>, <<"d", 5>>, Undefined),
    Click(<<"e", 5>>, <<"d", 6>>, Undefined),
    Click(<<"g", 1>>, <<"f", 3>>, Undefined),
    Click(<<"f", 1>>, <<"c", 4>>, Undefined),
    Click(<<"e", 1>>, <<"g", 1>>, Undefined),
    Click(<<"a", 6>>, <<"a", 5>>, Undefined) }

\* coordinates submitted in the validation scenarios: e2-e4, e7-e5, the
\* blocked rook a1-a3, the empty square a4, a move onto its own square and
\* two with a coordinate off the board
ValidateCoords ==
  { <<6, 4, 4, 4>>, <<1, 4, 3, 4>>, <<7, 0, 5, 0>>, <<4, 0, 3, 0>>,
    <<6, 4, 6, 4>>, <<8, 4, 4, 4>>, <<6, 4, 4, 0 - 1>> }

\* the same, with either color claimed and with or without a promotion
ValidateMoves ==
  { [ gamePiece |-> c, oldRow |-> rc[1], oldCol |-> rc[2],
      newRow |-> rc[3], newCol |-> rc[4], promotion |-> promo ] :
      c \in {"White", "Black"}, rc \in ValidateCoords, promo \in {Undefined, "Q"} }

\* the clicks of the fool's mate
MateClicks ==
  { Click(<<"f", 2>>, <<"f", 3>>, Undefined),
    Click(<<"e", 7>>, <<"e", 5>>, Undefined),
    Click(<<"g", 2>>, <<"g", 4>>, Undefined),
    Click(<<"d", 8>>, <<"h", 4>>, Undefined) }

PromotionLetters == {"Q", "R", "B", "N"}

\* clicks of the promotion scenarios: the h-pawn runs to g7 and promotes
\* on h8, g8 or f8 while Black shuffles a knight
PromoClicks ==
  { Click(<<"h", 2>>, <<"h", 4>>, Undefined),
    Click(<<"h", 4>>, <<"h", 5>>, Undefined),
    Click(<<"h", 5>>, <<"h", 6>>, Undefined),
    Click(<<"h", 6>>, <<"g", 7>>, Undefined),
    Click(<<"g", 7>>, <<"h", 8>>, Undefined),
    Click(<<"g", 7>>, <<"g", 8>>, Undefined),
    Click(<<"g", 7>>, <<"g", 8>>, "Q"),
    Click(<<"g", 7>>, <<"f", 8>>, "N"),
    Click(<<"h", 2>>, <<"h", 4>>, "Q"),
    Click(<<"h", 1>>, <<"h", 3>>, "Q"),
    Click(<<"g", 8>>, <<"f", 6>>, Undefined),
    Click(<<"f", 6>>, <<"g", 8>>, Undefined),
    Click(<<"a", 7>>, <<"a", 6>>, Undefined),
    Click(<<"a", 7>>, <<"a", 6>>, "Q"),
    Click(<<"e", 2>>, <<"e", 5>>, Undefined),
    [ gamePiece |-> Undefined, oldRow |-> 0, oldCol |-> 0,
      newRow |-> 8, newCol |-> 0, promotion |-> Undefined ] }
  \cup { Click(<<"g", 7>>, <<"h", 8>>, l) : l \in PromotionLetters }

\* most matches the area creates
MaxGames == 2

\* most bot computations pending at a time
MaxPending == 1

\* most results in the area's history
MaxHistory == 1

\* the ids commands name: those of the matches the area creates
GameIDs == 1..MaxGames

CommandOf(type, gameID, move, color) ==
  [ type |-> type, gameID |-> gameID, move |-> move,
    difficulty |-> Undefined, color |-> color ]

\* the moves sent to the area: the fool's mate
AreaMoves ==
  { makeChessMove(<<"f", 2>>, <<"f", 3>>, "White", Undefined),
    makeChessMove(<<"e", 7>>, <<"e", 5>>, "Black", Undefined),
    makeChessMove(<<"g", 2>>, <<"g", 4>>, "White", Undefined),
    makeChessMove(<<"d", 8>>, <<"h", 4>>, "Black", Undefined) }

\* the commands of player-against-player matches, and one of no known type
Commands ==
  { CommandOf("JoinGame", NoGame, NoMove, Undefined),
    CommandOf("InvalidCommand", NoGame, NoMove, Undefined) }
  \cup { CommandOf(t, id, NoMove, Undefined) :
           t \in {"StartGame", "LeaveGame"}, id \in GameIDs }
  \cup { CommandOf("GameMove", id, m, Undefined) :
           id \in GameIDs, m \in AreaMoves }

\* the commands that seat players, against each other or against the bot
JoinCommands ==
  { CommandOf("JoinGame", NoGame, NoMove, Undefined),
    CommandOf("JoinBotGame", NoGame, NoMove, Undefined),
    CommandOf("JoinBotGame", NoGame, NoMove, "Black") }
  \cup { CommandOf(t, id, NoMove, Undefined) :
           t \in {"StartGame", "LeaveGame"}, id \in GameIDs }

\* the commands of a human who plays the bot with either color
BotCommands ==
  { CommandOf("JoinBotGame", NoGame, NoMove, Undefined),
    CommandOf("JoinBotGame", NoGame, NoMove, "Black") }
  \cup { CommandOf("LeaveGame", id, NoMove, Undefined) : id \in GameIDs }
  \cup { CommandOf("GameMove", id, m, Undefined) :
           id \in GameIDs, m \in AreaMoves }

\* the human who plays the bot
Human == "p1"

\* the moves the engine answers with
BotReplies ==
  { [from |-> <<"f", 2>>, to |-> <<"f", 3>>, promotion |-> Undefined],
    [from |-> <<"e", 7>>, to |-> <<"e", 5>>, promotion |-> Undefined],
    [from |-> <<"g", 2>>, to |-> <<"g", 4>>, promotion |-> Undefined],
    [from |-> <<"d", 8>>, to |-> <<"h", 4>>, promotion |-> Undefined] }

\* the reply strings of an engine: two squares and an optional promotion
\* letter
SquareStrings == { <<Files[f], RankChars[r]>> : f \in 1..8, r \in 1..8 }
ReplyStrings ==
  { from \o to \o promo :
      from \in SquareStrings, to \in SquareStrings,
      promo \in { << >>, <<"q">>, <<"r">>, <<"b">>, <<"n">> } }

\* the characters of the output streams, and their greatest length
StreamChars == {"a", "b", " ", Newline}
MaxStream == 5

RECURSIVE Streams(_)
Streams(n) ==
  IF n = 0 THEN { << >> }
  ELSE Streams(n - 1) \cup
       { Append(t, c) : t \in { u \in Streams(n - 1) : Len(u) = n - 1 }, c \in StreamChars }

\* how a bot computation fails: the bridge resolves with no move and
\* ChessBot.getBestMove slices undefined, or the bridge request rejects
BridgeFailures == {"TypeError", "EngineError"}

\* most getBestMove calls on one bridge
MaxRequests == 2

\* the positions sent to the engine, and the search depths of the bot's
\* difficulties
Fens == {"start", "afterE4"}
Depths == {3, 8, 14}

\* ------------------------------------------------------------------------
\* the state machine
\* ------------------------------------------------------------------------
VARIABLES state, engine, ret, area, pending, retired, last, sf, child, stdout

vars == <<state, engine, ret, area, pending, retired, last, sf, child, stdout>>

\* the match and its area
townVars == <<state, engine, ret, area, pending, retired, last>>

\* the engine bridge and its subprocess
bridgeVars == <<sf, child, stdout>>

\* what a call on the match itself leaves alone
areaVars == <<area, pending, retired, last, sf, child, stdout>>

\* what the last call returned to its caller
Returned(op, player, move, err) ==
  [op |-> op, player |-> player, move |-> move, err |-> err]

Init ==
  /\ state = InitialState
  /\ engine = NewChess
  /\ ret = Returned("new", Undefined, NoMove, NoError)
  /\ area = InitialArea
  /\ pending = << >>
  /\ retired = {}
  /\ last = NoOutcome
  /\ sf = NewStockfishEngine
  /\ child = NewChild
  /\ stdout = NewStdout

Join(p) ==
  LET r == _join(state, p)
  IN  /\ state' = r.state
      /\ engine' = engine
      /\ ret' = Returned("join", p, NoMove, r.err)
      /\ UNCHANGED areaVars

StartGame(p) ==
  LET r == startGame(state, engine, p)
  IN  /\ state' = r.state
      /\ engine' = r.engine
      /\ ret' = Returned("startGame", p, NoMove, r.err)
      /\ UNCHANGED areaVars

ApplyMove(p, m) ==
  LET r == applyMove(state, engine, [playerID |-> p, move |-> m])
  IN  /\ Len(state.moves) < MaxMoves
      /\ state' = r.state
      /\ engine' = r.engine
      /\ ret' = Returned("applyMove", p, m, r.err)
      /\ UNCHANGED areaVars

Leave(p) ==
  LET r == _leave(state, p)
  IN  /\ state' = r.state
      /\ engine' = engine
      /\ ret' = Returned("leave", p, NoMove, r.err)
      /\ UNCHANGED areaVars

\* a move sent by the client of player p
ClientMove(p, c) ==
  /\ makeMove(state, p, c).err = NoError
  /\ ApplyMove(p, makeMove(state, p, c).request.move)

\* any player calls any operation with any move
Next ==
  \E p \in Players :
     \/ Join(p)
     \/ StartGame(p)
     \/ \E m \in Moves : ApplyMove(p, m)
     \/ Leave(p)

Spec == Init /\ [][Next]_vars

\* two opponents sit down and play through their clients
NextEnd ==
  \E p \in Opponents :
     \/ Join(p)
     \/ StartGame(p)
     \/ \E c \in EndClicks : ClientMove(p, c)

SpecEnd == Init /\ [][NextEnd]_vars

NextPromo ==
  \E p \in Opponents :
     \/ Join(p)
     \/ StartGame(p)
     \/ \E c \in PromoClicks : ClientMove(p, c)

SpecPromo == Init /\ [][NextPromo]_vars

NextReplay ==
  \E p \in Opponents :
     \/ Join(p)
     \/ StartGame(p)
     \/ \E c \in ReplayClicks : ClientMove(p, c)

SpecReplay == Init /\ [][NextReplay]_vars

\* any player calls any operation with a move of the validation scenarios
NextValidate ==
  \E p \in Players :
     \/ Join(p)
     \/ StartGame(p)
     \/ \E m \in ValidateMoves : ApplyMove(p, m)
     \/ Leave(p)

SpecValidate == Init /\ [][NextValidate]_vars

\* the world the area's handlers work on
Now == World(area, state, engine, pending, retired)

\* player p sends command c to the area, whose history has room for
\* entries results
CommandUpTo(p, c, entries) ==
  \E h \in {handleCommand(Now, c, p)} :
      /\ h.world.area.created <= MaxGames
      /\ Len(h.world.pending) <= MaxPending
      /\ Len(h.world.area.history) <= entries
      /\ c.type = "GameMove" => Len(state.moves) < MaxMoves
      /\ area' = h.world.area
      /\ state' = h.world.state
      /\ engine' = h.world.engine
      /\ pending' = h.world.pending
      /\ retired' = h.world.retired
      /\ ret' = Returned(c.type, p, NoMove, h.err)
      /\ last' = h.out
      /\ UNCHANGED bridgeVars

\* player p sends command c to the area
Command(p, c) == CommandUpTo(p, c, MaxHistory)

\* the i-th pending computation resolves with a move that is legal in the
\* position it was given
BotReply(i, move) ==
  /\ i \in 1..Len(pending)
  /\ Legal(ChessFromFen(pending[i].fen), SquareIdx(move.from), SquareIdx(move.to))
  /\ \E h \in {botReply(Now, i, move)} :
         /\ Len(h.world.area.history) <= MaxHistory
         /\ area' = h.world.area
         /\ state' = h.world.state
         /\ engine' = h.world.engine
         /\ pending' = h.world.pending
         /\ retired' = h.world.retired
         /\ ret' = Returned("botReply", _BOT_PLAYER_ID, NoMove, h.err)
         /\ last' = h.out
         /\ UNCHANGED bridgeVars

\* two players send commands to the area
NextArea == \E p \in Opponents : \E c \in Commands : Command(p, c)

SpecArea == Init /\ [][NextArea]_vars

\* players sit down and get up, in matches of both kinds
\* the client of player p sends the move of click c to the area's match
ClientCommand(p, c) ==
  /\ makeMove(state, p, c).err = NoError
  /\ Command(p, CommandOf("GameMove", area.game,
                          makeMove(state, p, c).request.move, Undefined))

\* two players join and start through the area and play the end-of-game
\* scenarios
NextAreaEnd ==
  \E p \in Opponents :
     \/ Command(p, CommandOf("JoinGame", NoGame, NoMove, Undefined))
     \/ \E id \in GameIDs :
          Command(p, CommandOf("StartGame", id, NoMove, Undefined))
     \/ \E c \in EndClicks : ClientCommand(p, c)

SpecAreaEnd == Init /\ [][NextAreaEnd]_vars

NextJoin == \E p \in Opponents : \E c \in JoinCommands : Command(p, c)

SpecJoin == Init /\ [][NextJoin]_vars

\* a human plays the bot while the bot's computations resolve
NextBot ==
  \/ \E c \in BotCommands : Command(Human, c)
  \/ \E i \in 1..MaxPending : \E move \in BotReplies : BotReply(i, move)

SpecBot == Init /\ [][NextBot]_vars

\* a human plays the bot and then joins a player-against-player match,
\* while the bot's computations resolve
NextStale ==
  \/ \E c \in BotCommands \cup {CommandOf("JoinGame", NoGame, NoMove, Undefined)} :
        Command(Human, c)
  \/ \E i \in 1..MaxPending : \E move \in BotReplies : BotReply(i, move)

SpecStale == Init /\ [][NextStale]_vars

\* two players join, start, play to the mate and leave, with room in the
\* history for the results of a match and of its rematch
NextRematch ==
  \E p \in Opponents :
     \/ CommandUpTo(p, CommandOf("JoinGame", NoGame, NoMove, Undefined), MaxHistory + 1)
     \/ \E id \in GameIDs :
          CommandUpTo(p, CommandOf("StartGame", id, NoMove, Undefined), MaxHistory + 1)
     \/ \E id \in GameIDs :
          CommandUpTo(p, CommandOf("LeaveGame", id, NoMove, Undefined), MaxHistory + 1)
     \/ \E c \in MateClicks :
          /\ makeMove(state, p, c).err = NoError
          /\ CommandUpTo(p, CommandOf("GameMove", area.game,
                                      makeMove(state, p, c).request.move, Undefined),
                         MaxHistory + 1)

SpecRematch == Init /\ [][NextRematch]_vars

\* the i-th pending computation fails
BotFailure(i, error) ==
  /\ i \in 1..Len(pending)
  /\ \E h \in {botRejected(Now, i, error)} :
         /\ area' = h.world.area
         /\ state' = h.world.state
         /\ engine' = h.world.engine
         /\ pending' = h.world.pending
         /\ retired' = h.world.retired
         /\ ret' = Returned("botFailure", _BOT_PLAYER_ID, NoMove, h.err)
         /\ last' = h.out
         /\ UNCHANGED bridgeVars

\* a bot match in which the engine may fail
NextBotFailing ==
  \/ NextBot
  \/ \E i \in 1..MaxPending : \E error \in BridgeFailures : BotFailure(i, error)

SpecBotFailing == Init /\ [][NextBotFailing]_vars

\* a caller asks the bridge for the best move in fen at depth
GetBestMove(fen, depth) ==
  /\ sf.calls < MaxRequests
  /\ \A i \in 1..Len(sf.stdin) : sf.stdin[i] # <<"quit">>
  /\ sf' = getBestMove(sf, fen, depth)
  /\ UNCHANGED <<child, stdout, townVars>>

\* the stdout handler reads the next line of the subprocess
Deliver ==
  /\ child.pipe # << >>
  /\ sf' = _handleLine(sf, Head(child.pipe))
  /\ child' = [child EXCEPT !.pipe = Tail(@)]
  /\ UNCHANGED <<stdout, townVars>>

\* the subprocess reads its next command and answers it
ChildReads ==
  /\ child.alive
  /\ child.read < Len(sf.stdin)
  /\ \E out \in Answers(child, sf.stdin[child.read + 1]) :
        child' = ChildStep(child, sf.stdin[child.read + 1], out)
  /\ UNCHANGED <<sf, stdout, townVars>>

\* the subprocess exits on its own
ChildExits ==
  /\ child.alive
  /\ child' = [child EXCEPT !.alive = FALSE]
  /\ UNCHANGED <<sf, stdout, townVars>>

\* quit(): "quit" is written and the subprocess is killed; what it had
\* written before is still in the pipe
Quit ==
  /\ \A i \in 1..Len(sf.stdin) : sf.stdin[i] # <<"quit">>
  /\ sf' = quit(sf)
  /\ child' = [child EXCEPT !.alive = FALSE]
  /\ UNCHANGED <<stdout, townVars>>

NextEngine ==
  \/ \E fen \in Fens : \E depth \in Depths : GetBestMove(fen, depth)
  \/ Deliver
  \/ ChildReads
  \/ ChildExits
  \/ Quit

SpecEngine == Init /\ [][NextEngine]_vars

\* the lines a subprocess writes
Lines ==
  { <<"readyok">>, <<"uciok">>, <<"info", "depth">>, <<"bestmove">> }
    \cup { <<"bestmove", BestMoveOf(fen)>> : fen \in Fens }

MaxResolvers == 3

\* resolver lists, in registration order; resolver k waits for job k
ResolverLists ==
  UNION { { [ k \in 1..n |->
                [match |-> m[k],
                 job |-> [id |-> k, fen |-> f[k], depth |-> 8]] ] :
              m \in [1..n -> {"readyok", "bestmove"}], f \in [1..n -> Fens] } :
          n \in 0..MaxResolvers }

\* a bridge with some resolvers registered, and one line to be read
InitResolvers ==
  /\ state = InitialState
  /\ engine = NewChess
  /\ ret = Returned("new", Undefined, NoMove, NoError)
  /\ area = InitialArea
  /\ pending = << >>
  /\ retired = {}
  /\ last = NoOutcome
  /\ \E rs \in ResolverLists :
        sf = [NewStockfishEngine EXCEPT !._pendingResolvers = rs,
                                        !._busy = TRUE,
                                        !.calls = Len(rs)]
  /\ \E line \in Lines : child = [NewChild EXCEPT !.pipe = <<line>>]
  /\ stdout = NewStdout

SpecResolvers == InitResolvers /\ [][Deliver]_vars

\* a bridge whose one request resolved with a reply string, in an area
\* whose bot plays one of the colors
InitTranslate ==
  /\ state = InitialState
  /\ engine = NewChess
  /\ ret = Returned("new", Undefined, NoMove, NoError)
  /\ \E c \in {"White", "Black"} :
        area = [InitialArea EXCEPT !.isBotGame = TRUE, !.botColor = c]
  /\ pending = << >>
  /\ retired = {}
  /\ last = NoOutcome
  /\ \E out \in ReplyStrings :
        sf = [NewStockfishEngine EXCEPT
                !.calls = 1,
                !.settled = << [job |-> [id |-> 1, fen |-> "start", depth |-> 8],
                                result |-> out] >>]
  /\ child = NewChild
  /\ stdout = NewStdout

\* the bot task turns the reply into its move request
Translate ==
  /\ ret.op = "new"
  /\ \E request \in {botMoveRequest(ChessBot_getBestMove(sf.settled[1].result), area.botColor)} :
        ret' = Returned("botMove", request.playerID, request.move, NoError)
  /\ UNCHANGED <<state, engine, area, pending, retired, last, sf, child, stdout>>

SpecTranslate == InitTranslate /\ [][Translate]_vars

\* a new bridge whose subprocess is about to write some output
InitFraming ==
  /\ state = InitialState
  /\ engine = NewChess
  /\ ret = Returned("new", Undefined, NoMove, NoError)
  /\ area = InitialArea
  /\ pending = << >>
  /\ retired = {}
  /\ last = NoOutcome
  /\ sf = NewStockfishEngine
  /\ child = NewChild
  /\ \E text \in Streams(MaxStream) : stdout = [NewStdout EXCEPT !.stream = text]

\* the 'data' handler receives the next n characters as one chunk
Data(n) ==
  /\ n \in 1..Len(stdout.stream)
  /\ \E r \in {OnData(sf, SubSeq(stdout.stream, 1, n))} :
        /\ sf' = r.sf
        /\ stdout' = [ stream |-> SubSeq(stdout.stream, n + 1, Len(stdout.stream)),
                       received |-> stdout.received \o SubSeq(stdout.stream, 1, n),
                       lines |-> stdout.lines \o r.handled ]
  /\ UNCHANGED <<child, townVars>>

NextFraming == \E n \in 1..MaxStream : Data(n)

SpecFraming == InitFraming /\ [][NextFraming]_vars

\* an engine that stays up and answers, read by a handler that keeps
\* running
NextEngineLive ==
  \/ \E fen \in Fens : \E depth \in Depths : GetBestMove(fen, depth)
  \/ Deliver
  \/ ChildReads

SpecEngineLive ==
  Init /\ [][NextEngineLive]_vars /\ WF_vars(Deliver) /\ WF_vars(ChildReads)

\* ------------------------------------------------------------------------
\* properties
\* ------------------------------------------------------------------------
Seated(s, p) == s.white = p \/ s.black = p
BothSeated(s) == s.white # Undefined /\ s.black # Undefined

\* the occupant of the seat whose color is to move
SideToMoveOccupant == IF Turn(engine) = "w" THEN state.white ELSE state.black
SideToMoveColor == IF Turn(engine) = "w" THEN "White" ELSE "Black"

\* the step is a call of op (its result is in ret')
Called(op) == ret'.op = op

\* the condition of C1 on one step
C1_JoinStep ==
  Called("join") =>
    LET p == ret'.player
    IN  /\ IF Seated(state, p)
           THEN ret'.err = PLAYER_ALREADY_IN_GAME_MESSAGE
           ELSE IF state.white = Undefined
           THEN /\ ret'.err = NoError
                /\ state'.white = p /\ state'.black = state.black
           ELSE IF state.black = Undefined
           THEN /\ ret'.err = NoError
                /\ state'.black = p /\ state'.white = state.white
           ELSE ret'.err = GAME_FULL_MESSAGE
        /\ ret'.err = NoError =>
             state'.status = IF BothSeated(state')
                             THEN WAITING_TO_START ELSE WAITING_FOR_PLAYERS

\* C1: join(p) fails with already-seated when p holds a seat; otherwise it
\* takes the white seat if empty, else the black seat if empty, else fails
\* with game-full; after a successful join the status is WAITING_TO_START
\* exactly when both seats are filled and WAITING_FOR_PLAYERS otherwise.
C1_Join == [][C1_JoinStep]_vars

\* a second occupant took the black seat and the match waits to start
C1_Witness ==
  /\ ret.op = "join" /\ ret.err = NoError
  /\ state.black = ret.player /\ state.white # Undefined
  /\ state.status = WAITING_TO_START

\* the condition of C2 on one step
C2_StartStep ==
  Called("startGame") =>
    LET p == ret'.player
    IN  IF state.status # WAITING_TO_START
        THEN ret'.err = GAME_NOT_STARTABLE_MESSAGE
        ELSE IF ~Seated(state, p)
        THEN ret'.err = PLAYER_NOT_IN_GAME_MESSAGE
        ELSE /\ ret'.err = NoError
             /\ state.white = p =>
                  state'.whiteReady = True /\ state'.blackReady = state.blackReady
             /\ state.black = p =>
                  state'.blackReady = True /\ state'.whiteReady = state.whiteReady
             /\ state'.status \in {IN_PROGRESS, WAITING_TO_START}
             /\ state'.status = IN_PROGRESS <=>
                  (state'.whiteReady = True /\ state'.blackReady = True)
             /\ state'.status = IN_PROGRESS =>
                  IF state.white = p THEN state.blackReady = True
                                     ELSE state.whiteReady = True

\* C2: start(p) fails with not-startable in any status other than
\* WAITING_TO_START, whoever calls; in WAITING_TO_START an unseated caller
\* fails with not-seated; a seated caller sets only its own ready flag and
\* the status becomes IN_PROGRESS iff both flags are then true, so the
\* match starts only if the other occupant had marked ready before.
C2_Start == [][C2_StartStep]_vars

\* one occupant marked ready, the other did not: the match did not start
C2_Witness ==
  /\ ret.op = "startGame" /\ ret.err = NoError
  /\ state.status = WAITING_TO_START
  /\ state.whiteReady = True /\ state.blackReady # True

\* the condition of C3 on one step
C3_EnterStep ==
  (state.status # IN_PROGRESS /\ state'.status = IN_PROGRESS) =>
    /\ Len(state'.moves) = 0
    /\ state'.firstPlayer = "White"
    /\ engine'.board = InitialBoard
    /\ Turn(engine') = "w"
    /\ whoseTurn(state') = state'.white

\* C3: every transition into IN_PROGRESS leaves an empty move log, White as
\* first mover and the standard initial position with White to move, also
\* when the same match is started again after an earlier game.
C3_EnterInProgress == [][C3_EnterStep]_vars

\* the match was started again: it still carries the earlier game's winner
C3_Witness ==
  /\ ret.op = "startGame" /\ ret.err = NoError
  /\ state.status = IN_PROGRESS
  /\ state.winner # Undefined
  /\ Len(state.moves) = 0

\* the condition of C4 on one step
C4_ApplyStep ==
  Called("applyMove") =>
    LET p == ret'.player
    IN  IF state.status # IN_PROGRESS
        THEN ret'.err = GAME_NOT_IN_PROGRESS_MESSAGE
        ELSE IF ~Seated(state, p)
        THEN ret'.err = PLAYER_NOT_IN_GAME_MESSAGE
        ELSE IF p # SideToMoveOccupant
        THEN ret'.err = MOVE_NOT_YOUR_TURN_MESSAGE
        ELSE ret'.err = _validateMove(engine, ret'.move)

\* C4: applyMove checks in this order: status not IN_PROGRESS gives
\* not-in-progress whoever calls; else an unseated caller gives not-seated;
\* else a caller who is not the occupant of the seat to move gives
\* not-your-turn; only then the move is validated.  Once the match is OVER
\* every applyMove fails with not-in-progress.
C4_ApplyMoveOrder == [][C4_ApplyStep]_vars

\* a seated player moved after the match was over
C4_Witness ==
  /\ ret.op = "applyMove" /\ ret.err = GAME_NOT_IN_PROGRESS_MESSAGE
  /\ state.status = OVER
  /\ Seated(state, ret.player)
  /\ Len(state.moves) > 0

\* the step is a successful applyMove: the move was appended to the log
Moved == Called("applyMove") /\ ret'.err = NoError

ColorName(i) == IF i % 2 = 1 THEN "White" ELSE "Black"

\* C5: in a match that entered IN_PROGRESS the first successful move is
\* made by the white-seat occupant and successful moves strictly alternate
\* between the two occupants: the n-th logged move is White's for odd n and
\* Black's for even n, it is made by the occupant of that seat, the seats
\* hold different occupants and do not change, and after it the other
\* color is to move.
C5_MoveStep ==
  Moved =>
    /\ state'.moves = Append(state.moves, ret'.move)
    /\ ret'.move.gamePiece = ColorName(Len(state'.moves))
    /\ ret'.player = IF Len(state.moves) % 2 = 0 THEN state.white ELSE state.black
    /\ state.white # state.black
    /\ state'.white = state.white /\ state'.black = state.black
    /\ Turn(engine') = Opp(Turn(engine))
    /\ Turn(engine') = IF Len(state'.moves) % 2 = 0 THEN "w" ELSE "b"

C5_LogAlternates ==
  \A i \in 1..Len(state.moves) : state.moves[i].gamePiece = ColorName(i)

\* C5: the first successful move of a match in progress is White's and
\* successful moves strictly alternate between the two seated occupants
C5_Alternation == [][C5_MoveStep]_vars /\ []C5_LogAlternates

\* Black answered White's first move
C5_Witness ==
  /\ ret.op = "applyMove" /\ ret.err = NoError
  /\ ret.player = state.black
  /\ Len(state.moves) = 2
  /\ Turn(engine) = "w"

\* the content of the square (row, col) of the position, rows from the top
PieceAt(e, row, col) == e.board[row * 8 + col + 1]

\* the caller is seated in a match in progress but moves out of turn, from
\* an empty square or with an opponent's piece
OutOfTurn(p, m) == p # SideToMoveOccupant \/ m.gamePiece # SideToMoveColor
SourceOnBoard(m) == m.oldRow \in 0..7 /\ m.oldCol \in 0..7
FromEmptySquare(m) ==
  SourceOnBoard(m) /\ PieceAt(engine, m.oldRow, m.oldCol) = Empty
OpponentsPiece(m) ==
  /\ SourceOnBoard(m)
  /\ PieceAt(engine, m.oldRow, m.oldCol) # Empty
  /\ ColorOf(PieceAt(engine, m.oldRow, m.oldCol)) # Turn(engine)

\* the condition of C6 on one step
C6_RefusedStep ==
  ( /\ Called("applyMove")
    /\ state.status = IN_PROGRESS
    /\ Seated(state, ret'.player)
    /\ \/ OutOfTurn(ret'.player, ret'.move)
       \/ FromEmptySquare(ret'.move)
       \/ OpponentsPiece(ret'.move) ) =>
    /\ ret'.err \in {MOVE_NOT_YOUR_TURN_MESSAGE, BOARD_POSITION_NOT_VALID_MESSAGE}
    /\ engine' = engine
    /\ state'.moves = state.moves

\* C6: a seated player of a match in progress who moves out of turn, from
\* an unoccupied square or with the opponent's piece fails with
\* not-your-turn or invalid-position, and the position and the move log
\* stay as they were.
C6_IllegalMovers == [][C6_RefusedStep]_vars

\* the player to move moved from an empty square: invalid-position
C6_Witness ==
  /\ ret.op = "applyMove" /\ ret.err = BOARD_POSITION_NOT_VALID_MESSAGE
  /\ state.status = IN_PROGRESS
  /\ ret.player = SideToMoveOccupant
  /\ ret.move.gamePiece = SideToMoveColor
  /\ FromEmptySquare(ret.move)

\* the condition of C7 on one step
C7_FailedStep ==
  ( /\ ret'.op \in {"join", "startGame", "applyMove", "leave"}
    /\ ret'.err # NoError ) =>
    /\ state' = state
    /\ engine' = engine

\* C7: when join, start, applyMove or leave fails, seats, status, ready
\* flags, move log, winner and position are what they were before the call.
C7_FailureFrame == [][C7_FailedStep]_vars

\* a move of the player to move, of an own piece, was refused by the clone
C7_Witness ==
  /\ ret.op = "applyMove" /\ ret.err = BOARD_POSITION_NOT_VALID_MESSAGE
  /\ state.status = IN_PROGRESS
  /\ ret.player = SideToMoveOccupant
  /\ ret.move.gamePiece = SideToMoveColor
  /\ SourceOnBoard(ret.move)
  /\ ColorOf(PieceAt(engine, ret.move.oldRow, ret.move.oldCol)) = Turn(engine)
  /\ Len(state.moves) > 0

\* the move names two different squares of the board
OnBoard(m) ==
  /\ SourceOnBoard(m)
  /\ m.newRow \in 0..7 /\ m.newCol \in 0..7
  /\ << m.oldRow, m.oldCol >> # << m.newRow, m.newCol >>

\* the source square holds a pawn of the side to move and the destination
\* is that color's last rank
PawnToLastRank(m) ==
  /\ OnBoard(m)
  /\ PieceAt(engine, m.oldRow, m.oldCol) = FENChar("p", Turn(engine))
  /\ m.newRow = PawnLastRow(Turn(engine))

\* the step is an applyMove that got as far as validating the move
Validated ==
  /\ Called("applyMove")
  /\ state.status = IN_PROGRESS
  /\ ret'.player = SideToMoveOccupant

\* the move breaks the promotion rule: a letter without a pawn of the side
\* to move reaching its last rank, or such a pawn without a letter
BreaksPromotionRule(m) ==
  \/ m.promotion # Undefined /\ ~PawnToLastRank(m)
  \/ m.promotion = Undefined /\ PawnToLastRank(m)

\* C8 as stated: a move carrying a promotion letter is rejected with
\* invalid-position unless the source holds a pawn of the side to move and
\* the destination is that color's last rank, and a pawn move to its last
\* rank without a letter is always rejected with invalid-position.
C8_AsStatedStep ==
  (Validated /\ BreaksPromotionRule(ret'.move)) =>
    ret'.err = BOARD_POSITION_NOT_VALID_MESSAGE

C8_AsStated == [][C8_AsStatedStep]_vars

\* the condition of C8 on one step
C8_PromotionStep ==
  (Validated /\ BreaksPromotionRule(ret'.move)) =>
    /\ ret'.err =
         IF /\ OnBoard(ret'.move)
            /\ \/ ret'.move.gamePiece # SideToMoveColor
               \/ OpponentsPiece(ret'.move)
         THEN MOVE_NOT_YOUR_TURN_MESSAGE
         ELSE BOARD_POSITION_NOT_VALID_MESSAGE
    /\ state' = state
    /\ engine' = engine

\* C8: a move that breaks the promotion rule is always rejected and
\* changes nothing; the error is invalid-position, except that a move
\* between two squares of the board that claims the color not to move, or
\* starts from a square holding the opponent's piece, gets not-your-turn
\* from the earlier ownership checks.
C8_PromotionRule == [][C8_PromotionStep]_vars

\* a pawn's double step from its home square came with a letter and was
\* refused as an invalid position
C8_Witness ==
  /\ ret.op = "applyMove" /\ ret.err = BOARD_POSITION_NOT_VALID_MESSAGE
  /\ state.status = IN_PROGRESS
  /\ ret.player = SideToMoveOccupant
  /\ ret.move.promotion # Undefined
  /\ OnBoard(ret.move)
  /\ PieceAt(engine, ret.move.oldRow, ret.move.oldCol) = FENChar("p", Turn(engine))
  /\ ret.move.newRow # PawnLastRow(Turn(engine))

\* the pawn move of m is legal in the position: the rules allow it and it
\* does not leave the mover's king attacked
PawnMoveLegal(m) ==
  Legal(engine, Idx(m.oldRow, m.oldCol), Idx(m.newRow, m.newCol))

\* C9 as stated: a pawn reaching the last rank without a promotion letter
\* is always rejected; with one of Q/R/B/N the move always succeeds and
\* places that piece on the destination square.
C9_AsStatedStep ==
  (Validated /\ PawnToLastRank(ret'.move)
             /\ ret'.move.gamePiece = SideToMoveColor) =>
    LET m == ret'.move
    IN  IF m.promotion = Undefined
        THEN ret'.err # NoError
        ELSE /\ ret'.err = NoError
             /\ PieceAt(engine', m.newRow, m.newCol) =
                  FENChar(ToLowerCase(m.promotion), Turn(engine))

C9_AsStated == [][C9_AsStatedStep]_vars

\* the condition of C9 on one step
C9_PromotionStep ==
  (Validated /\ PawnToLastRank(ret'.move)
             /\ ret'.move.gamePiece = SideToMoveColor) =>
    LET m == ret'.move
    IN  IF m.promotion = Undefined
        THEN ret'.err = BOARD_POSITION_NOT_VALID_MESSAGE /\ engine' = engine
        ELSE IF PawnMoveLegal(m)
        THEN /\ ret'.err = NoError
             /\ PieceAt(engine', m.newRow, m.newCol) =
                  FENChar(ToLowerCase(m.promotion), Turn(engine))
             /\ PieceAt(engine', m.oldRow, m.oldCol) = Empty
             /\ state'.moves = Append(state.moves, m)
        ELSE /\ ret'.err = BOARD_POSITION_NOT_VALID_MESSAGE
             /\ engine' = engine /\ state' = state

\* C9: a pawn reaching the last rank without a promotion letter is always
\* rejected; with one of Q/R/B/N the move succeeds exactly when the pawn
\* move is legal in the position, and then the chosen piece stands on the
\* destination square, the source square is empty and the move is logged;
\* an illegal one is rejected with invalid-position and changes nothing.
C9_Promotion == [][C9_PromotionStep]_vars

\* White's pawn captured on h8 and became the rook that was asked for
C9_Witness ==
  /\ ret.op = "applyMove" /\ ret.err = NoError
  /\ ret.move.promotion = "R"
  /\ ret.move.newRow = 0
  /\ PieceAt(engine, ret.move.newRow, ret.move.newCol) = "R"
  /\ PieceAt(engine, ret.move.oldRow, ret.move.oldCol) = Empty

\* a promotion with a letter was refused: the square ahead is occupied
C9_Blocked ==
  /\ ret.op = "applyMove" /\ ret.err = BOARD_POSITION_NOT_VALID_MESSAGE
  /\ ret.move.promotion = "Q"
  /\ PieceAt(engine, ret.move.oldRow, ret.move.oldCol) = "P"
  /\ ret.move.newRow = 0
  /\ PieceAt(engine, ret.move.newRow, ret.move.newCol) = "n"

\* one of the draw conditions the match looks for holds in position e
Drawn(e) ==
  \/ InStalemate(e)
  \/ InsufficientMaterial(e)
  \/ InThreefoldRepetition(e)
  \/ InDraw(e)

\* the condition of C10 on one step
C10_EndingStep ==
  Moved =>
    IF InCheckmate(engine')
    THEN /\ state'.status = OVER
         /\ state'.winner = ret'.player
         /\ state'.winner = IF Turn(engine) = "w" THEN state.white ELSE state.black
         /\ state'.whiteReady = False /\ state'.blackReady = False
    ELSE IF Drawn(engine')
    THEN /\ state'.status = OVER
         /\ state'.winner = Undefined
         /\ state'.whiteReady = False /\ state'.blackReady = False
    ELSE /\ state'.status = IN_PROGRESS
         /\ state'.winner = state.winner
         /\ state'.whiteReady = state.whiteReady
         /\ state'.blackReady = state.blackReady

C10_Repetition ==
  /\ ret.op = "applyMove" /\ ret.err = NoError
  /\ InThreefoldRepetition(engine) /\ ~InCheckmate(engine)
  /\ state.status = OVER
  /\ state.winner = Undefined

\* the occupant of the seat p does not hold
OtherOccupant(s, p) == IF s.white = p THEN s.black ELSE s.white

\* the step vacates the seat of p and leaves the other seat alone
VacatesOnly(p) ==
  /\ state.white = p => state'.white = Undefined /\ state'.black = state.black
  /\ state.white # p => state'.black = Undefined /\ state'.white = state.white

\* the condition of C11 on one step
C11_LeaveStep ==
  Called("leave") =>
    LET p == ret'.player
    IN  /\ ~Seated(state, p) => ret'.err = PLAYER_NOT_IN_GAME_MESSAGE
        /\ (Seated(state, p) /\ state.status = IN_PROGRESS) =>
             /\ ret'.err = NoError
             /\ VacatesOnly(p)
             /\ state'.status = OVER
             /\ state'.winner = OtherOccupant(state, p)
             /\ state'.winner # Undefined /\ state'.winner # p
             /\ state'.moves = state.moves /\ engine' = engine

\* C11: leave by a seated occupant while the match is IN_PROGRESS vacates
\* the leaver's seat, sets the status to OVER and makes the occupant of
\* the other seat the winner, whatever the position and whoever is to
\* move; leave by a player holding no seat fails with not-seated.
C11_LeaveInProgress == [][C11_LeaveStep]_vars

\* Black left on Black's own turn after a move: White is the winner
C11_Witness ==
  /\ ret.op = "leave" /\ ret.err = NoError
  /\ state.status = OVER
  /\ state.black = Undefined /\ state.white # Undefined
  /\ state.winner = state.white
  /\ Len(state.moves) = 1 /\ Turn(engine) = "b"

\* C12: leave by a seated occupant while the status is WAITING_TO_START,
\* WAITING_FOR_PLAYERS or OVER vacates only that seat, sets the status to
\* WAITING_FOR_PLAYERS and clears both ready flags; no ready flag is set
\* while the match waits for players, so after a new occupant joined both
\* flags are clear and the remaining occupant has to call start again.
C12_LeaveStep ==
  /\ ( /\ Called("leave")
       /\ Seated(state, ret'.player)
       /\ state.status \in {WAITING_TO_START, WAITING_FOR_PLAYERS, OVER} ) =>
        /\ ret'.err = NoError
        /\ VacatesOnly(ret'.player)
        /\ state'.status = WAITING_FOR_PLAYERS
        /\ state'.whiteReady = False /\ state'.blackReady = False
        /\ state'.moves = state.moves /\ state'.winner = state.winner
        /\ engine' = engine
  /\ ( /\ Called("join") /\ ret'.err = NoError
       /\ state'.status = WAITING_TO_START ) =>
        ~Truthy(state'.whiteReady) /\ ~Truthy(state'.blackReady)

C12_NoReadyWhileWaiting ==
  state.status = WAITING_FOR_PLAYERS =>
    ~Truthy(state.whiteReady) /\ ~Truthy(state.blackReady)

\* C12: leave outside IN_PROGRESS vacates only the leaver's seat, sets the
\* status to WAITING_FOR_PLAYERS and clears both ready flags, and no ready
\* flag is set while the match waits for players
C12_LeaveResets == [][C12_LeaveStep]_vars /\ []C12_NoReadyWhileWaiting

\* Black left a match that had not started: White stays seated, the match
\* waits for players and both flags are cleared
C12_Witness ==
  /\ ret.op = "leave" /\ ret.err = NoError
  /\ state.status = WAITING_FOR_PLAYERS
  /\ state.white # Undefined /\ state.black = Undefined
  /\ state.whiteReady = False /\ state.blackReady = False
  /\ state.winner = Undefined

\* C13 as stated: once the status is OVER no join, start, applyMove or
\* leave ever changes it.
C13_AsStatedStep == state.status = OVER => state'.status = OVER

C13_AsStated == [][C13_AsStatedStep]_vars

\* the condition of C13 on one step
C13_OverStep ==
  state.status = OVER =>
    /\ Called("startGame") =>
         ret'.err = GAME_NOT_STARTABLE_MESSAGE /\ state' = state /\ engine' = engine
    /\ Called("applyMove") =>
         ret'.err = GAME_NOT_IN_PROGRESS_MESSAGE /\ state' = state /\ engine' = engine
    /\ state'.status # OVER =>
         \/ /\ Called("leave") /\ Seated(state, ret'.player)
            /\ state'.status = WAITING_FOR_PLAYERS
         \/ /\ Called("join") /\ ~BothSeated(state)
            /\ Seated(state', ret'.player)
            /\ state'.status \in {WAITING_TO_START, WAITING_FOR_PLAYERS}

\* C13: while the status is OVER every start and every applyMove fails
\* and changes nothing; the status leaves OVER only when a seated occupant
\* leaves (to WAITING_FOR_PLAYERS) or when a player joins into a vacant
\* seat (to WAITING_TO_START or WAITING_FOR_PLAYERS), never directly to
\* IN_PROGRESS.
C13_OverLeftOnlyBySeats == [][C13_OverStep]_vars

\* a seated occupant left a match that was over after a mate: the
\* instance waits for players again, the winner still recorded
C13_Witness ==
  /\ ret.op = "leave" /\ ret.err = NoError
  /\ state.status = WAITING_FOR_PLAYERS
  /\ state.winner # Undefined
  /\ InCheckmate(engine)

\* the commands that name the match they are for
Targeted == {"GameMove", "StartGame", "LeaveGame"}

\* the step left the match, the area and the pending computations alone
NothingChanged ==
  /\ state' = state /\ engine' = engine
  /\ area' = area /\ pending' = pending /\ retired' = retired
  /\ last'.emits = 0 /\ last'.scheduled = 0

\* the condition of C14 on one step
C14_CommandStep ==
  /\ ((\E t \in Targeted : Called(t)) /\ area.game = NoGame)
       => ret'.err = GAME_NOT_IN_PROGRESS_MESSAGE /\ NothingChanged
  /\ \A c \in Commands :
       (/\ c.type \in Targeted
        /\ Called(c.type)
        /\ area.game # NoGame
        /\ c.gameID # area.game
        /\ Command(ret'.player, c))
       => ret'.err = GAME_ID_MISSMATCH_MESSAGE /\ NothingChanged
  /\ ((\E t \in Targeted : Called(t)) /\ ret'.err = GAME_ID_MISSMATCH_MESSAGE)
       => area.game # NoGame /\ NothingChanged
  /\ Called("InvalidCommand")
       => ret'.err = INVALID_COMMAND_MESSAGE /\ NothingChanged

\* C14: GameMove, StartGame and LeaveGame fail with the not-in-progress
\* error when the area has no match, and with the game-id-mismatch error
\* when it has one and the id supplied is not its id; in both cases the
\* match is not called: match and area are unchanged. A command of an
\* unknown type fails with the invalid-command error.
C14_CommandErrors == [][C14_CommandStep]_vars

\* a move was sent to a match in progress under another match's id
C14_Witness ==
  /\ ret.op = "GameMove"
  /\ ret.err = GAME_ID_MISSMATCH_MESSAGE
  /\ area.game # NoGame
  /\ state.status = IN_PROGRESS

\* JoinGame needs a new match: none yet, the last one over, or a bot match
NeedsNewGame == area.game = NoGame \/ state.status = OVER \/ area.isBotGame

\* the condition of C15 on one step
C15_JoinStep ==
  Called("JoinGame") =>
    /\ NeedsNewGame =>
         /\ area'.created = area.created + 1
         /\ area'.game = area'.created
         /\ area'.game # area.game
         /\ ~area'.isBotGame /\ area'.bot = Undefined
         /\ last'.quit = (area.bot # Undefined)
         /\ ret'.err = NoError
         /\ state' = [InitialState EXCEPT !.white = ret'.player]
         /\ engine' = NewChess
    /\ ~NeedsNewGame =>
         /\ area'.created = area.created
         /\ area'.game = area.game
         /\ area'.isBotGame = area.isBotGame
         /\ ~last'.quit
         /\ ret'.err = NoError =>
              /\ ~Seated(state, ret'.player)
              /\ \/ state'.white = ret'.player /\ state'.black = state.black
                 \/ state'.black = ret'.player /\ state'.white = state.white
         /\ ret'.err # NoError => state' = state
    /\ ret'.err = NoError =>
         /\ last'.gameID = area'.game
         /\ last'.gameID # NoGame
         /\ Seated(state', ret'.player)

\* C15: JoinGame makes a new match exactly when the area has none, its
\* match is OVER or its match is a bot match (the old bot is then quit and
\* the area leaves bot mode), and seats the caller in it; otherwise it
\* joins the caller to the match the area has. It returns the id of the
\* match the caller was seated in, so a second player joining a match
\* that is not over gets the id the first one got.
C15_JoinGame == [][C15_JoinStep]_vars

\* the second player joined the first one's match, the second match the
\* area made, and got its id
C15_Witness ==
  /\ ret.op = "JoinGame" /\ ret.err = NoError /\ ret.player = "p2"
  /\ state.white = "p1" /\ state.black = "p2"
  /\ ~area.isBotGame
  /\ area.created = 2
  /\ last.gameID = area.game

\* the commands a player-against-player match takes
PvPCommands == {"JoinGame", "StartGame", "GameMove", "LeaveGame"}

\* the condition of C16 on one step
C16_EmitStep ==
  ((\E t \in PvPCommands : Called(t)) /\ ~area.isBotGame /\ ~area'.isBotGame)
    => /\ ret'.err = NoError => last'.emits = 1
       /\ ret'.err # NoError => last'.emits = 0

\* C16: on a player-against-player match a JoinGame, StartGame, GameMove
\* or LeaveGame that completes without error emits exactly one
\* area-changed notification, and one that fails (id mismatch, no match,
\* or an error thrown by the match) emits none
C16_EmitOncePerSuccess == [][C16_EmitStep]_vars

\* the match refused a move made out of turn: nothing was emitted
C16_Witness ==
  /\ ret.op = "GameMove"
  /\ ret.err = MOVE_NOT_YOUR_TURN_MESSAGE
  /\ state.status = IN_PROGRESS
  /\ ~area.isBotGame
  /\ last.emits = 0

\* the last entry of the history after the step
NewResult == area'.history[Len(area'.history)]

\* the step appended one result for the area's match in which the seat
\* that won scores 1 and the other 0, both 0 when nobody won
AppendsResultOf(s) ==
  /\ Len(area'.history) = Len(area.history) + 1
  /\ SubSeq(area'.history, 1, Len(area.history)) = area.history
  /\ NewResult.gameID = area.game
  /\ DOMAIN NewResult.scores = {UserName(s.white), UserName(s.black)}
  /\ s.winner = s.white
       => /\ NewResult.scores[UserName(s.white)] = 1
          /\ NewResult.scores[UserName(s.black)] = 0
  /\ s.winner = s.black
       => /\ NewResult.scores[UserName(s.black)] = 1
          /\ NewResult.scores[UserName(s.white)] = 0
  /\ s.winner = Undefined
       => /\ NewResult.scores[UserName(s.white)] = 0
          /\ NewResult.scores[UserName(s.black)] = 0

\* the condition of C17 on one step
C17_MoveStep ==
  Called("GameMove") =>
    IF ret'.err = NoError /\ state'.status = OVER
    THEN /\ state.status = IN_PROGRESS
         /\ BothSeated(state')
         /\ state'.winner \in {state'.white, state'.black, Undefined}
         /\ AppendsResultOf(state')
    ELSE area'.history = area.history

\* C17: a GameMove that ends the match appends exactly one result for the
\* match to the area's history, the winner's name scoring 1 and the
\* loser's 0, or both names 0 for a draw; a GameMove that does not end the
\* match, or that fails, appends nothing
C17_MoveResult == [][C17_MoveStep]_vars

\* a move drew the match by repetition and the result scores both at 0
C17_Witness ==
  /\ ret.op = "GameMove" /\ ret.err = NoError
  /\ state.status = OVER /\ state.winner = Undefined
  /\ Len(area.history) = 1
  /\ area.history[1].gameID = area.game
  /\ area.history[1].scores = [n \in {"alice", "bob"} |-> 0]

\* a move mated and the result scores the winner at 1, the loser at 0
C17_MateRecorded ==
  /\ ret.op = "GameMove" /\ ret.err = NoError
  /\ state.status = OVER /\ state.winner = state.black
  /\ Len(area.history) = 1
  /\ area.history[1].scores[UserName(state.black)] = 1
  /\ area.history[1].scores[UserName(state.white)] = 0

\* the step is a LeaveGame by a seated player that ended a match in
\* progress: the other seat's occupant won
LeaveWins ==
  /\ Called("LeaveGame") /\ ret'.err = NoError
  /\ state.status = IN_PROGRESS
  /\ Seated(state, ret'.player)
  /\ state'.status = OVER

\* the condition of C18 on one step
C18_LeaveStep ==
  LeaveWins =>
    /\ Len(area'.history) = Len(area.history) + 1
    /\ SubSeq(area'.history, 1, Len(area.history)) = area.history
    /\ NewResult.gameID = area.game
    /\ NewResult.scores[UserName(OtherOccupant(state, ret'.player))] = 1
    /\ NewResult.scores[UserName(ret'.player)] = 0

\* C18: when a LeaveGame during play wins the match for the other player,
\* the area's history gets exactly one result for that match in which the
\* remaining player scores 1 and the leaving player scores 0
C18_LeaveWinRecorded == [][C18_LeaveStep]_vars

\* what the area does instead: the leaver's seat is vacated before the
\* result is built, and no result is recorded
C18_UnrecordedStep ==
  LeaveWins =>
    /\ state'.winner = OtherOccupant(state, ret'.player)
    /\ ~BothSeated(state')
    /\ area'.history = area.history
    /\ last'.emits = 1

C18_LeaveWinUnrecorded == [][C18_UnrecordedStep]_vars

\* black left a match in progress, white won, and the history is empty
C18_Witness ==
  /\ ret.op = "LeaveGame" /\ ret.err = NoError /\ ret.player = "p2"
  /\ state.status = OVER /\ state.winner = "p1"
  /\ state.white = "p1" /\ state.black = Undefined
  /\ area.game = 1
  /\ area.history = << >>

\* after the step the bot is due to move: the command succeeded and left
\* a bot match in progress with the bot's color to move
BotDue ==
  /\ ret'.err = NoError
  /\ ret'.op \in {"GameMove", "JoinBotGame"}
  /\ area'.isBotGame
  /\ state'.status = IN_PROGRESS
  /\ turnColor(engine') = area'.botColor

\* the condition of C19 on one step
C19_ScheduleStep ==
  /\ ((\E t \in {"GameMove", "JoinBotGame", "LeaveGame"} : Called(t))
        /\ (area.isBotGame \/ area'.isBotGame))
       => /\ IF BotDue
             THEN /\ last'.scheduled = 1
                  /\ pending' = Append(pending, BotTask(area'.game, engine'))
             ELSE /\ last'.scheduled = 0
                  /\ pending' = pending
          /\ (Called("GameMove") /\ ret'.err = NoError)
               => /\ Len(state'.moves) = Len(state.moves) + 1
                  /\ state'.moves[Len(state'.moves)].gamePiece # area.botColor
  /\ Called("botReply")
       => /\ last'.scheduled = 0
          /\ Len(pending') = Len(pending) - 1

\* C19: in a bot match a command schedules exactly one bot computation,
\* on the position it left, when it succeeded (a committed human GameMove,
\* or JoinBotGame) and left the match IN_PROGRESS with the bot to move,
\* and none when it failed, ended the match or left the human to move; it
\* returns with the computation still pending and the bot's move not made.
\* The bot's own move schedules no computation.
C19_OneBotMoveScheduled == [][C19_ScheduleStep]_vars

\* the human moved as White and the bot's computation on the resulting
\* position is pending
C19_Witness ==
  /\ ret.op = "GameMove" /\ ret.err = NoError
  /\ area.isBotGame /\ area.botColor = "Black"
  /\ state.status = IN_PROGRESS
  /\ Len(state.moves) = 1
  /\ last.scheduled = 1
  /\ pending = << BotTask(area.game, engine) >>

\* the human mated the bot: no computation was scheduled
C19_MateSchedulesNone ==
  /\ ret.op = "GameMove" /\ ret.err = NoError
  /\ area.isBotGame
  /\ state.status = OVER /\ state.winner = Human
  /\ last.scheduled = 0
  /\ pending = << >>

\* the match g moved on since the computation was scheduled: it is not in
\* progress any more, or the side to move is not the bot's
Stale(g) ==
  \/ g.state.status # IN_PROGRESS
  \/ _currentPlayerID(g.state, g.engine) # _BOT_PLAYER_ID

\* the condition of C20 on one step
C20_ReplyStep ==
  Called("botReply") =>
    /\ ret'.player = _BOT_PLAYER_ID
    /\ ret'.err = NoError
    /\ \A i \in 1..Len(pending) : \A move \in BotReplies :
         (Stale(TaskGame(Now, pending[i])) /\ BotReply(i, move))
         => /\ last'.caught \in {GAME_NOT_IN_PROGRESS_MESSAGE,
                                  MOVE_NOT_YOUR_TURN_MESSAGE}
            /\ last'.emits = 0
            /\ area' = area
            /\ state' = state /\ engine' = engine
            /\ retired' \subseteq retired
    /\ (last'.emits = 1 /\ state' # state)
         => /\ Len(state'.moves) = Len(state.moves) + 1
            /\ state'.moves[Len(state'.moves)].gamePiece = area.botColor
            /\ _currentPlayerID(state, engine) = _BOT_PLAYER_ID

\* C20: a bot reply that resolves after its match was advanced (the human
\* left, the match ended, or it is not the bot's turn any more) goes
\* through applyMove under the reserved bot id with the bot's color, fails
\* there and is dropped: no error reaches a caller, nothing is emitted or
\* added to the history, and the match keeps its status, winner, seats and
\* move log
C20_StaleReplyDropped == [][C20_ReplyStep]_vars

\* the human left while the bot was computing: the reply was refused by
\* the match that is over and nothing was recorded
C20_Witness ==
  /\ ret.op = "botReply" /\ ret.err = NoError
  /\ last.caught = GAME_NOT_IN_PROGRESS_MESSAGE
  /\ last.emits = 0
  /\ state.status = OVER /\ state.winner = _BOT_PLAYER_ID
  /\ area.history = << >>
  /\ pending = << >>

\* the match was set up again with the human to move while the bot was
\* computing: the reply was refused as out of turn
C20_OutOfTurn ==
  /\ ret.op = "botReply" /\ ret.err = NoError
  /\ last.caught = MOVE_NOT_YOUR_TURN_MESSAGE
  /\ last.emits = 0
  /\ state.status = IN_PROGRESS /\ state.moves = << >>

\* JoinBotGame keeps the match the area has: a bot match that is not over
KeepsBotGame == area.game # NoGame /\ state.status # OVER /\ area.isBotGame

\* the JoinBotGame commands
JoinBotCommands == { c \in JoinCommands : c.type = "JoinBotGame" }

\* after the step the caller holds the seat of the color asked for (White
\* when none was given) and the bot's reserved id the other seat, in a
\* match in progress that has no move yet
SeatedAgainstBot ==
  /\ ret'.err = NoError
  /\ area'.isBotGame
  /\ state'.status = IN_PROGRESS /\ state'.moves = << >>
  /\ engine' = NewChess
  /\ last'.gameID = area'.game
  /\ \A c \in JoinBotCommands :
       Command(ret'.player, c)
       => IF c.color = "Black"
          THEN /\ state'.black = ret'.player
               /\ state'.white = _BOT_PLAYER_ID
               /\ area'.botColor = "White"
          ELSE /\ state'.white = ret'.player
               /\ state'.black = _BOT_PLAYER_ID
               /\ area'.botColor = "Black"

\* C21 as stated: every JoinBotGame makes a new match instance, with an
\* id that differs from the id of the match the area had, and seats the
\* caller as the color asked for against the bot
C21_AsStatedStep ==
  Called("JoinBotGame") =>
    /\ area'.game # area.game
    /\ area'.created = area.created + 1
    /\ SeatedAgainstBot

C21_JoinBotStep ==
  Called("JoinBotGame") =>
    /\ KeepsBotGame
         => /\ area'.game = area.game
            /\ area'.created = area.created
    /\ ~KeepsBotGame
         => /\ area'.game = area.created + 1
            /\ area'.game # area.game
            /\ area'.created = area.created + 1
    /\ SeatedAgainstBot

EngineAlive == area.bot # Undefined

\* the step replaces the area's bot match, or sets a bot match up again
ReplacesBotGame ==
  /\ area.isBotGame
  /\ ret'.err = NoError
  /\ Called("JoinGame") \/ Called("JoinBotGame")

\* a step that replaces a bot match quits the old bot
C22_ReplaceStep == ReplacesBotGame => last'.quit

\* no engine is alive once the bot match is over
C22_NoEngineAfterEnd ==
  (area.isBotGame /\ state.status = OVER) => ~EngineAlive

\* C22: the bot's quit is called whenever its match is replaced by another
\* match or ends: a step that replaces a bot match quits the old bot, and
\* once a bot match is over (checkmate, draw or the human's LeaveGame) no
\* engine subprocess of it is alive. The area holds at most one bot, so at
\* most one live engine.
C22_EngineTerminated == [][C22_ReplaceStep]_vars /\ []C22_NoEngineAfterEnd

\* what the area does: the bot is quit by the next JoinGame or
\* JoinBotGame only, so while the area is in bot mode its engine is alive,
\* whatever the status of the match
C22_EngineKeptUntilReplaced ==
  /\ [][C22_ReplaceStep]_vars
  /\ [](area.isBotGame <=> EngineAlive)

\* the human left the bot match: it is over and the engine is still alive
C22_Witness ==
  /\ ret.op = "LeaveGame" /\ ret.err = NoError
  /\ area.isBotGame
  /\ state.status = OVER /\ state.winner = _BOT_PLAYER_ID
  /\ EngineAlive

\* the step is the failure of a computation scheduled for the area's
\* match while it is in progress with the bot to move
EngineFails ==
  /\ Called("botFailure")
  /\ \E i \in 1..Len(pending) : pending[i].game = area.game
  /\ state.status = IN_PROGRESS
  /\ _currentPlayerID(state, engine) = _BOT_PLAYER_ID

\* the match is as it was: in progress, the bot to move, no move made
C23_MatchStep ==
  EngineFails
    => /\ state' = state /\ engine' = engine
       /\ area' = area
       /\ last'.emits = 0

C23_MatchUntouched == [][C23_MatchStep]_vars

\* the condition of C23 on one step
C23_FailureStep ==
  EngineFails
    => /\ ret'.err = NoError
       /\ state' = state /\ engine' = engine
       /\ area' = area

\* C23: a failure of the engine bridge during a scheduled bot computation
\* (the request rejects, or the reply is malformed or empty) never leaves
\* the area as an unhandled error and never changes the match: no bot
\* move is made and the match stays IN_PROGRESS with the bot to move
C23_FailureContained == [][C23_FailureStep]_vars

\* the bridge resolved with no move, the bot's slice threw, and the error
\* left the area's task unhandled; the match still waits for the bot
C23_Witness ==
  /\ ret.op = "botFailure" /\ ret.err = "TypeError"
  /\ area.isBotGame
  /\ state.status = IN_PROGRESS
  /\ _currentPlayerID(state, engine) = _BOT_PLAYER_ID
  /\ pending = << >>

\* the bridge resolved a request with no move: the bestmove line had no
\* second token
C23_EmptyReply ==
  \E i \in 1..Len(sf.settled) : sf.settled[i].result = Undefined

\* the commands of the requests, in the order written
RequestCommands == SelectSeq(sf.stdin, LAMBDA c : c[1] \notin {"uci", "quit"})

\* the job in flight: the one a resolver waits for
InFlight == sf._pendingResolvers[1].job

\* the requests started so far, in the order started
StartedJobs ==
  [ j \in 1..(Len(sf.settled) + Len(sf._pendingResolvers)) |->
      IF j <= Len(sf.settled) THEN sf.settled[j].job ELSE InFlight ]

\* the k-th command of a request
CommandOfJob(job, k) ==
  IF k = 1 THEN <<"isready">>
  ELSE IF k = 2 THEN <<"position", job.fen>>
  ELSE <<"go", job.depth>>

Written(e, word) == Len(SelectSeq(e.stdin, LAMBDA c : c[1] = word))

\* the step is the stdout handler reading line
Reads(line) ==
  /\ child.pipe # << >>
  /\ Head(child.pipe) = line
  /\ child'.pipe = Tail(child.pipe)

\* the condition of C25 on one step
C25_RequestStep ==
  /\ Len(StartedJobs') > Len(StartedJobs)
       => /\ sf'.stdin = Append(sf.stdin, <<"isready">>)
          /\ sf'._pendingResolvers =
               << [match |-> "readyok", job |-> InFlight'] >>
  /\ (Written(sf', "position") > Written(sf, "position")
        \/ Written(sf', "go") > Written(sf, "go"))
       => /\ Reads(<<"readyok">>)
          /\ sf._pendingResolvers = << [match |-> "readyok", job |-> InFlight] >>
          /\ sf'.stdin = sf.stdin \o << <<"position", InFlight.fen>>,
                                        <<"go", InFlight.depth>> >>
          /\ sf'._pendingResolvers =
               << [match |-> "bestmove", job |-> InFlight] >>
  /\ Len(sf'.settled) > Len(sf.settled)
       => /\ \E line \in {Head(child.pipe)} :
               /\ Reads(line)
               /\ line[1] = "bestmove"
               /\ sf'.settled =
                    Append(sf.settled, [job |-> InFlight,
                                        result |-> SecondToken(line)])
          /\ sf._pendingResolvers = << [match |-> "bestmove", job |-> InFlight] >>
          /\ Written(sf, "go") = Len(sf.settled) + 1

\* C25: a request drives the engine in three ordered steps: it writes
\* isready first; it writes position fen and go depth, in that order,
\* only when a readyok line is read while it waits for one; and it
\* resolves only when a line that begins with bestmove is read while it
\* waits for one, with the second token of that line
C25_ThreeSteps == [][C25_RequestStep]_vars

\* a request went through the three steps and resolved with the move
C25_Witness ==
  /\ sf.stdin = << <<"uci">>, <<"isready">>, <<"position", "start">>,
                   <<"go", 14>> >>
  /\ sf.settled = << [ job |-> [id |-> 1, fen |-> "start", depth |-> 14],
                       result |-> "e2e4" ] >>
  /\ sf._pendingResolvers = << >>

\* the bridge has read the engine's uciok line
UciokRead ==
  /\ child.read >= 1
  /\ \A i \in 1..Len(child.pipe) : child.pipe[i] # <<"uciok">>

\* C26: after the spawn the bridge writes uci and writes no further
\* command (isready, position or go) until it has read uciok
C26_InitAcknowledged ==
  (Written(sf, "isready") + Written(sf, "position") + Written(sf, "go") > 0)
    => UciokRead

\* what the bridge does: nothing waits for uciok; the line is read like
\* any line that no resolver matches, and dropped
C26_UciokStep ==
  Reads(<<"uciok">>) => sf' = sf

C26_UciokDropped == [][C26_UciokStep]_vars

\* the first request wrote isready right after uci, before the engine had
\* read anything
C26_Witness ==
  /\ sf.stdin = << <<"uci">>, <<"isready">> >>
  /\ child.read = 0 /\ child.pipe = << >>
  /\ sf._busy

\* the resolvers of a list that accept line, by position
Accepting(rs, line) ==
  { i \in 1..Len(rs) :
      \/ rs[i].match = "readyok" /\ line = <<"readyok">>
      \/ rs[i].match = "bestmove" /\ Len(line) >= 1 /\ line[1] = "bestmove" }

\* the resolver at position i was resolved with line: it left the list,
\* the others kept their order, and its request went on
ResolvedBy(i, line) ==
  LET rs == sf._pendingResolvers
  IN  /\ SubSeq(sf'._pendingResolvers, 1, Len(rs) - 1) = RemoveAt(rs, i)
      /\ IF rs[i].match = "readyok"
         THEN /\ line = <<"readyok">>
              /\ sf'.settled = sf.settled
              /\ sf'._pendingResolvers =
                   Append(RemoveAt(rs, i), [match |-> "bestmove", job |-> rs[i].job])
         ELSE /\ line[1] = "bestmove"
              /\ sf'.settled =
                   Append(sf.settled, [job |-> rs[i].job, result |-> SecondToken(line)])

C27_LineStep ==
  child.pipe # << >> =>
  \A line \in {Head(child.pipe)} :
    Reads(line) =>
      LET hits == Accepting(sf._pendingResolvers, line)
      IN  IF hits = {} THEN sf' = sf
          ELSE \E i \in hits :
                 /\ \A k \in hits : i <= k
                 /\ ResolvedBy(i, line)

\* C27: a line read from the engine is offered to the pending resolvers in
\* registration order; the first that accepts it is removed and resolved
\* with it and no later resolver sees it; a line no resolver accepts is
\* discarded; a resolver waiting for readyok is never resolved by a
\* bestmove line, nor one waiting for bestmove by a readyok line
C27_FirstMatchConsumes == [][C27_LineStep]_vars

\* a line was read that two pending resolvers accept, was given to the
\* first, and the one registered before it, which does not accept it, stays
C27_Witness ==
  /\ child.pipe = << >>
  /\ Len(sf.settled) = 1
  /\ sf.settled[1].job.id = 2
  /\ Len(sf._pendingResolvers) = 2
  /\ sf._pendingResolvers[1] = [match |-> "readyok", job |-> [id |-> 1, fen |-> "start", depth |-> 8]]
  /\ sf._pendingResolvers[2].match = "bestmove"
  /\ sf._pendingResolvers[2].job.id = 3

\* a request is in flight and its reply can no longer come: the
\* subprocess has exited and no line still to be read is one the pending
\* resolver accepts
Hopeless ==
  /\ sf._busy
  /\ ~child.alive
  /\ \A k \in 1..Len(child.pipe) : Accepting(sf._pendingResolvers, child.pipe[k]) = {}

\* the step is the reading of the line the in-flight request waits for
ReadsExpected ==
  /\ child.pipe # << >>
  /\ Accepting(sf._pendingResolvers, Head(child.pipe)) # {}
  /\ child'.pipe = Tail(child.pipe)

C28_Step ==
  /\ (sf._busy /\ (~sf'._busy \/ sf'.settled # sf.settled
                     \/ Len(StartedJobs') > Len(StartedJobs)))
       => ReadsExpected
  /\ Hopeless
       => /\ Hopeless'
          /\ sf'._busy
          /\ sf'.settled = sf.settled
          /\ sf'._pendingResolvers = sf._pendingResolvers
          /\ StartedJobs' = StartedJobs
          /\ SubSeq(sf'._queue, 1, Len(sf._queue)) = sf._queue

\* C28: there is no timeout and no exit handler: while a request is in
\* flight only the reading of the line it waits for settles it, clears
\* the busy flag or starts a queued request; once the subprocess has
\* exited without that line, the request never settles, busy stays set
\* and every request queued behind it stays queued
C28_StuckForever == [][C28_Step]_vars

\* the subprocess exited before answering; the request is in flight and
\* a second one is queued behind it
C28_Witness ==
  /\ Hopeless
  /\ child.pipe = << >>
  /\ Len(sf._pendingResolvers) = 1
  /\ Len(sf._queue) = 1
  /\ sf.settled = << >>
  /\ \A i \in 1..Len(sf.stdin) : sf.stdin[i] # <<"quit">>

\* quit() has been called on the bridge
QuitCalled == \E i \in 1..Len(sf.stdin) : sf.stdin[i] = <<"quit">>

C29_QuitStep == QuitCalled => sf'.settled = sf.settled

\* C29: after quit() the caller of the in-flight getBestMove never
\* observes a reply: no request of the bridge settles once quit was called
C29_NoReplyAfterQuit == [][C29_QuitStep]_vars

\* what quit() does: it writes quit and kills the subprocess, and leaves
\* the pending resolvers, the queue and the busy flag as they were
C29_QuitOnlyWrites ==
  [][(QuitCalled' /\ ~QuitCalled)
       => /\ sf' = [sf EXCEPT !.stdin = Append(@, <<"quit">>)]
          /\ ~child'.alive
          /\ child'.pipe = child.pipe]_vars

\* quit() was called while a request waited for its bestmove line, and
\* the line the subprocess had already written is still to be read
C29_Witness ==
  /\ QuitCalled
  /\ sf._busy
  /\ Len(sf._pendingResolvers) = 1
  /\ sf._pendingResolvers[1].match = "bestmove"
  /\ child.pipe # << >>
  /\ Head(child.pipe) = <<"bestmove", "e2e4">>

\* the engine's piece placement as client cells
EnginePlacement ==
  [ i \in 1..64 |-> IF engine.board[i] = Empty THEN Undefined ELSE engine.board[i] ]

\* C30: replaying the move log from the initial position gives the
\* position the server's rules engine holds after the same moves
C30_ReplayIsPosition == _updateFrom(state) = EnginePlacement

\* the step applies a move that is a castling or a capture en passant
SpecialMove ==
  /\ Len(state'.moves) = Len(state.moves) + 1
  /\ LET mv == state'.moves[Len(state'.moves)]
     IN  \/ IsCastle(engine, Idx(mv.oldRow, mv.oldCol), Idx(mv.newRow, mv.newCol))
         \/ IsEnPassant(engine, Idx(mv.oldRow, mv.oldCol), Idx(mv.newRow, mv.newCol))

\* what the client does: its replay follows the engine through every move
\* that is neither a castling nor a capture en passant, promotions and
\* ordinary captures included
C30_PlainMovesAgree ==
  [][(C30_ReplayIsPosition /\ ~SpecialMove) => C30_ReplayIsPosition']_vars

\* White has captured en passant on d6
C30_Witness ==
  /\ Len(state.moves) = 5
  /\ state.moves[5] = makeChessMove(<<"e", 5>>, <<"d", 6>>, "White", Undefined)
  /\ engine.board[Idx(3, 3)] = Empty
  /\ _updateFrom(state)[Idx(3, 3)] = "p"

\* White has castled short: the engine's rook is on f1, the client's on h1
C30_Castled ==
  /\ engine.board[Idx(7, 6)] = "K"
  /\ engine.board[Idx(7, 5)] = "R"
  /\ _updateFrom(state)[Idx(7, 5)] = Undefined
  /\ _updateFrom(state)[Idx(7, 7)] = "R"

\* White is to move by the parity of the move log
WhiteByParity ==
  IF state.firstPlayer = "White"
  THEN Len(state.moves) % 2 = 0 ELSE Len(state.moves) % 2 = 1

\* C31: while the match is IN_PROGRESS the side to move by move-log parity
\* (White iff the number of logged moves is even) is the side to move of the
\* server's position, so the player the client shows as to move is the
\* player applyMove expects
C31_ParityIsTurn ==
  state.status = IN_PROGRESS =>
    /\ state.firstPlayer = "White"
    /\ WhiteByParity <=> Turn(engine) = "w"
    /\ whoseTurn(state) = _currentPlayerID(state, engine)

\* three moves were played: Black is to move on both sides
C31_Witness ==
  /\ state.status = IN_PROGRESS
  /\ Len(state.moves) = 3
  /\ whoseTurn(state) = state.black
  /\ Turn(engine) = "b"
  /\ state.black # Undefined

\* the column of a file letter and the row of a rank character
ColumnOfFile ==
  ("a" :> 0) @@ ("b" :> 1) @@ ("c" :> 2) @@ ("d" :> 3) @@
  ("e" :> 4) @@ ("f" :> 5) @@ ("g" :> 6) @@ ("h" :> 7)
RowOfRank ==
  ("1" :> 7) @@ ("2" :> 6) @@ ("3" :> 5) @@ ("4" :> 4) @@
  ("5" :> 3) @@ ("6" :> 2) @@ ("7" :> 1) @@ ("8" :> 0)
UpperCase == ("q" :> "Q") @@ ("r" :> "R") @@ ("b" :> "B") @@ ("n" :> "N")

\* C32: the move record made from a reply string has, for both squares,
\* column = file index (a = 0 .. h = 7) and row = 8 - rank, the promotion
\* letter in upper case or none, the bot's color and the bot's id; and the
\* match's row/column-to-square conversion gives back the reply's squares
C32_Translation ==
  ret.op = "botMove" =>
    LET out == sf.settled[1].result
        m == ret.move
    IN  /\ m.oldCol = ColumnOfFile[out[1]] /\ m.oldRow = RowOfRank[out[2]]
        /\ m.newCol = ColumnOfFile[out[3]] /\ m.newRow = RowOfRank[out[4]]
        /\ m.promotion = IF Len(out) = 5 THEN UpperCase[out[5]] ELSE Undefined
        /\ m.gamePiece = area.botColor
        /\ ret.player = _BOT_PLAYER_ID
        /\ SquareString(m.oldRow, m.oldCol) = SubSeq(out, 1, 2)
        /\ SquareString(m.newRow, m.newCol) = SubSeq(out, 3, 4)

\* the reply a7a8q was translated for a bot that plays Black
C32_Witness ==
  /\ ret.op = "botMove"
  /\ sf.settled[1].result = <<"a", "7", "a", "8", "q">>
  /\ area.botColor = "Black"
  /\ ret.move = [ oldRow |-> 1, oldCol |-> 0, newRow |-> 0, newCol |-> 0,
                  promotion |-> "Q", gamePiece |-> "Black" ]

\* the color to move in the server's position
ColorToMove == IF engine.turn = "w" THEN "White" ELSE "Black"

\* the error the ordered checks give move m in the current position
FirstFailingCheck(m) ==
  IF \/ m.oldRow \notin 0..7 \/ m.oldCol \notin 0..7
     \/ m.newRow \notin 0..7 \/ m.newCol \notin 0..7
     \/ (m.oldRow = m.newRow /\ m.oldCol = m.newCol)
  THEN BOARD_POSITION_NOT_VALID_MESSAGE
  ELSE IF m.gamePiece # ColorToMove
  THEN MOVE_NOT_YOUR_TURN_MESSAGE
  ELSE IF engine.board[m.oldRow * 8 + m.oldCol + 1] = Empty
  THEN BOARD_POSITION_NOT_VALID_MESSAGE
  ELSE IF ColorOf(engine.board[m.oldRow * 8 + m.oldCol + 1]) # engine.turn
  THEN MOVE_NOT_YOUR_TURN_MESSAGE
  ELSE IF (m.promotion # Undefined)
            # (TypeOf(engine.board[m.oldRow * 8 + m.oldCol + 1]) = "p"
               /\ m.newRow = (IF engine.turn = "w" THEN 0 ELSE 7))
  THEN BOARD_POSITION_NOT_VALID_MESSAGE
  ELSE IF ~Legal(engine, m.oldRow * 8 + m.oldCol + 1, m.newRow * 8 + m.newCol + 1)
  THEN BOARD_POSITION_NOT_VALID_MESSAGE
  ELSE NoError

\* the step is an applyMove call that got as far as validating the move
Validates ==
  /\ ret'.op = "applyMove"
  /\ state.status = IN_PROGRESS
  /\ ret'.player = _currentPlayerID(state, engine)
  /\ ret'.player # Undefined

\* the condition of C33 on one step
C33_ValidateStep ==
  Validates =>
    /\ ret'.err = FirstFailingCheck(ret'.move)
    /\ ret'.err # NoError => state' = state /\ engine' = engine

\* C33: move validation applies its checks in a fixed order and the first
\* failing one decides the error: coordinates off the board or source equal
\* to destination give invalid-position even when the claimed color is
\* wrong too; then a claimed color that is not the side to move gives
\* not-your-turn; then an empty source gives invalid-position and an
\* opponent's piece on the source not-your-turn; then a promotion-rule
\* violation and last a move the position rejects give invalid-position
C33_ValidationOrder == [][C33_ValidateStep]_vars

\* the player to move sent a move off the board under the wrong color and
\* was told the position is not valid
C33_Witness ==
  /\ ret.op = "applyMove"
  /\ ret.player = state.white
  /\ state.status = IN_PROGRESS
  /\ engine.turn = "w"
  /\ ret.move.gamePiece = "Black"
  /\ ret.move.oldRow = 8
  /\ ret.err = BOARD_POSITION_NOT_VALID_MESSAGE

\* an opponent's piece on the source, under the right color: not-your-turn
C33_OpponentsPiece ==
  /\ ret.op = "applyMove"
  /\ ret.player = state.white
  /\ state.status = IN_PROGRESS
  /\ engine.turn = "w"
  /\ ret.move.gamePiece = "White"
  /\ ret.move.oldRow = 1 /\ ret.move.oldCol = 4 /\ ret.move.newRow = 3
  /\ ret.err = MOVE_NOT_YOUR_TURN_MESSAGE

\* the step is the reply of a computation whose match the area has replaced
RepliesToReplaced ==
  /\ Called("botReply")
  /\ \E i \in 1..Len(pending) : \E move \in BotReplies :
        pending[i].game # area.game /\ BotReply(i, move)

\* C34: a bot reply computed for a match that has since been replaced is
\* never applied to the replacement match and never produces a history
\* entry or a state change attributed to the replacement match's id
C34_ReplacementUntouched ==
  [][RepliesToReplaced
       => /\ state' = state /\ engine' = engine
          /\ area' = area]_vars

\* what holds: the reply moves in the match it was computed for, never in
\* the replacement
C34_AppliedToOwnMatch ==
  [][RepliesToReplaced
       => /\ state' = state /\ engine' = engine
          /\ area'.game = area.game]_vars

\* the bot's mating reply arrived after JoinGame replaced its match: the
\* replacement, still waiting for players, has a result in the history
C34_Witness ==
  /\ ret.op = "botReply"
  /\ area.game = 2
  /\ ~area.isBotGame
  /\ state.status = WAITING_FOR_PLAYERS
  /\ Len(area.history) = 1
  /\ area.history[1].gameID = 2

\* the positions of the newlines in a text
NewlinesOf(text) == { i \in 1..Len(text) : text[i] = Newline }

\* the text without the blanks and carriage returns at its two ends
Stripped(text) ==
  LET inner == { i \in 1..Len(text) : text[i] \notin Whitespace }
  IN  IF inner = {} THEN << >>
      ELSE SubSeq(text, CHOOSE i \in inner : \A k \in inner : i <= k,
                        CHOOSE i \in inner : \A k \in inner : k <= i)

\* the k-th newline-terminated line of a text
LineOf(text, k) ==
  LET ends == NewlinesOf(text)
      end == CHOOSE i \in ends : Cardinality({ j \in ends : j < i }) = k - 1
      before == { j \in ends : j < end }
      start == IF before = {} THEN 1
               ELSE 1 + CHOOSE j \in before : \A m \in before : m <= j
  IN  SubSeq(text, start, end - 1)

\* C35: however the output is cut into chunks, the lines handed to the
\* resolvers are the newline-terminated lines of what was received, each
\* once, whole, trimmed and in stream order, and the buffer holds the text
\* after the last newline
C35_Framing ==
  LET text == stdout.received
      ends == NewlinesOf(text)
  IN  /\ Len(stdout.lines) = Cardinality(ends)
      /\ \A k \in 1..Len(stdout.lines) : stdout.lines[k] = Stripped(LineOf(text, k))
      /\ sf._buffer = SubSeq(text, (IF ends = {} THEN 0
                                    ELSE CHOOSE i \in ends : \A m \in ends : m <= i) + 1,
                             Len(text))

\* the line " ab" was handed over whole and trimmed, and the text after
\* its newline waits in the buffer
C35_Witness ==
  /\ stdout.received = <<" ", "a", "b", Newline, "a">>
  /\ stdout.lines = << <<"a", "b">> >>
  /\ sf._buffer = <<"a">>
  /\ stdout.stream = << >>

\* request id has resolved
Resolved(id) == \E k \in 1..Len(sf.settled) : sf.settled[k].job.id = id

\* no request has resolved twice
ResolvedOnce ==
  \A j, k \in 1..Len(sf.settled) :
     sf.settled[j].job.id = sf.settled[k].job.id => j = k

\* C36: with an engine that answers every isready with readyok and every
\* go with a bestmove line, every submitted getBestMove request eventually
\* resolves, however many are queued, each once; and the busy flag is
\* false again once nothing is queued
C36_EveryRequestResolves ==
  /\ \A id \in 1..MaxRequests : (sf.calls >= id) ~> Resolved(id)
  /\ sf._busy ~> (~sf._busy /\ sf._queue = << >>)
  /\ [](ResolvedOnce /\ (~sf._busy => sf._queue = << >>))

\* all the requests were submitted and have resolved; the bridge is idle
C36_Witness ==
  /\ sf.calls = MaxRequests
  /\ \A id \in 1..MaxRequests : Resolved(id)
  /\ ~sf._busy
  /\ sf._queue = << >>
  /\ sf._pendingResolvers = << >>

\* C37: the winner field is defined only while the status is OVER; a match
\* that waits for players, waits to start or is in progress carries no
\* winner, also after a finished match was left, joined and started again
C37_WinnerOnlyWhenOver ==
  state.status # OVER => state.winner = Undefined

\* what the code keeps: a winner is set only by a step that ends the match
C37_WinnerSetAtEnd ==
  [][state'.winner # state.winner
       => state'.status = OVER /\ state.status = IN_PROGRESS]_vars

\* the loser of a finished match left it: the match waits for players and
\* still names the winner
C37_Witness ==
  /\ state.status = WAITING_FOR_PLAYERS
  /\ state.winner # Undefined
  /\ state.winner = state.white
  /\ state.black = Undefined

\* the match was started again and is in progress with the old winner
C37_RestartedWithWinner ==
  /\ state.status = IN_PROGRESS
  /\ state.moves = << >>
  /\ state.winner # Undefined

\* C38: the two seats never hold the same occupant; while the match waits
\* to start or is in progress both seats are filled; while it waits for
\* players at least one seat is empty
C38_Seats ==
  /\ state.white # Undefined => state.white # state.black
  /\ state.status \in {WAITING_TO_START, IN_PROGRESS}
       => state.white # Undefined /\ state.black # Undefined
  /\ state.status = WAITING_FOR_PLAYERS
       => state.white = Undefined \/ state.black = Undefined

\* a finished match was left by White and joined by a third player, who
\* got the white seat: it waits to start with two different occupants
C38_Witness ==
  /\ state.status = WAITING_TO_START
  /\ state.white = "p3"
  /\ state.black = "p2"
  /\ state.winner # Undefined

\* C39: a seat's ready flag is true only if the seat is occupied and the
\* match waits to start or is in progress; in progress both flags are
\* true; while the match waits for players or is over both are false or
\* unset
C39_ReadyFlags ==
  /\ Truthy(state.whiteReady)
       => state.white # Undefined /\ state.status \in {WAITING_TO_START, IN_PROGRESS}
  /\ Truthy(state.blackReady)
       => state.black # Undefined /\ state.status \in {WAITING_TO_START, IN_PROGRESS}
  /\ state.status = IN_PROGRESS
       => Truthy(state.whiteReady) /\ Truthy(state.blackReady)
  /\ state.status \in {WAITING_FOR_PLAYERS, OVER}
       => /\ state.whiteReady \in {False, Undefined}
          /\ state.blackReady \in {False, Undefined}

\* a match ended by checkmate: both seats are still occupied and both
\* flags were cleared
C39_Witness ==
  /\ state.status = OVER
  /\ Len(state.moves) = 4
  /\ state.white # Undefined /\ state.black # Undefined
  /\ state.whiteReady = False /\ state.blackReady = False

\* White is ready, Black is seated and is not
C39_OneReady ==
  /\ state.status = WAITING_TO_START
  /\ Truthy(state.whiteReady) /\ ~Truthy(state.blackReady)

\* C40: the area history holds at most one entry per match id: no finished
\* game is recorded twice and no two recorded games share a game id
C40_OneEntryPerMatch ==
  \A j, k \in 1..Len(area.history) :
     area.history[j].gameID = area.history[k].gameID => j = k

\* what the code keeps: one command adds at most one entry, and only under
\* the id of the area's match
C40_OneEntryPerCommand ==
  [][\/ area'.history = area.history
     \/ /\ Len(area'.history) = Len(area.history) + 1
        /\ SubSeq(area'.history, 1, Len(area.history)) = area.history
        /\ area'.history[Len(area'.history)].gameID = area'.game
        /\ state'.status = OVER]_vars

\* a match ended by mate, was left and joined again, started again and
\* ended by mate again: two results under the one id
C40_Witness ==
  /\ Len(area.history) = 2
  /\ area.history[1].gameID = 1
  /\ area.history[2].gameID = 1
  /\ area.game = 1
  /\ state.status = OVER

====
